---- MODULE Spec2Model ----
(***************************************************************************)
(* Model of the Slack channel curation tool: the ledger (CSV / sheet) of   *)
(* channels with operator actions, the executor that routes pending        *)
(* actions through operator approval and re-verification to the action     *)
(* handler, the post-execution ledger update and the reconciliation of     *)
(* the ledger with the live channel list.                                  *)
(*                                                                         *)
(* Text values (channel names, target values) are sequences of one-        *)
(* character strings so that the character-level checks of the code        *)
(* (islower, isdigit, strip, lower, lstrip) are computed, not assumed.     *)
(***************************************************************************)
EXTENDS Integers, Sequences, FiniteSets, TLC

VARIABLES
    cfg,        \* [tool, dry_run, batch_size]: which entry script runs and its flags
    ledger,     \* the persisted ledger (rows of the CSV file / sheet)
    ledger0,    \* the persisted ledger as it was when the run started
    wrote,      \* TRUE once the run has written the ledger store
    remote,     \* the workspace: channel id -> live channel state
    channels,   \* main(): the in-memory list of rows ("channels")
    order,      \* execute_channel_actions: sorted list, as indices into channels
    current,    \* the live list last returned by get_all_channels
    pc,         \* position of the run
    i,          \* execute_channel_actions: loop index into order (1-based)
    batch,      \* execute_channel_actions: batch_channels, as indices into channels
    j,          \* position inside the batch being processed (1-based)
    bmode,      \* answer given to the batch prompt: "y", "i" or "-"
    ap,         \* get_user_approval in progress: [rec, action]
    counts,     \* [successful, failed, skipped]
    okids,      \* successful_channel_ids
    calls,      \* remote calls issued by the action handler and pauses of the
                \* executor (asyncio.sleep), in order
    last,       \* what the last executor step did with a record
    retargets,  \* number of retarget entries typed so far
    externals,  \* number of external changes of the workspace so far
    pre,        \* main(): [ok, rows]: whether the merge ran, and channels right before it
    error,      \* the error main() ended with, "" when none
    contacted,  \* TRUE once the run has sent any request to the workspace
    cache_written, \* TRUE once the run has written the activity cache file
    summary,    \* the "Execution Summary" the executor printed, if it did
    approved_all,  \* TRUE once the operator answered 'y' to a batch prompt
    quit,       \* TRUE once the operator entered 'q' at a prompt
    routed,     \* the records handed to approval or execution so far, in order
    now,        \* time.time(), in seconds
    activity,   \* the workspace: channel id -> ts of its latest message, 0 when none
    cache_file, \* the activity cache file channel_activity_cache.json
    en,         \* get_all_channels in progress: its locals and what it returned
    hd,         \* one call of the archive handler: its arguments and its outcome
    ft          \* the requests of one get_all_channels: pages, then history fetches

vars == <<cfg, ledger, ledger0, wrote, remote, channels, order, current, pc, i,
          batch, j, bmode, ap, counts, okids, calls, last, retargets, externals, pre,
          error, contacted, cache_written, summary, approved_all, quit, routed,
          now, activity, cache_file, en, hd, ft>>

\* the state of one enumeration and of the activity cache
enumvars == <<now, activity, cache_file, en>>

-----------------------------------------------------------------------------
(* Bounds of the model *)

MaxRetarget == 1    \* retarget entries the operator types in one run
MaxExternal == 1    \* changes made to the workspace by others during one run

-----------------------------------------------------------------------------
(* Characters and the Python string operations the code uses *)

LowerLetters == {"a", "b", "c", "d", "e", "f", "g", "h", "i", "j", "k", "l", "m",
                 "n", "o", "p", "q", "r", "s", "t", "u", "v", "w", "x", "y", "z"}
UpperLetters == {"A", "B", "G", "X"}
Digits == {"0", "1", "2", "3", "4", "5", "6", "7", "8", "9"}

ToLowerChar(c) ==
    CASE c = "A" -> "a"
      [] c = "B" -> "b"
      [] c = "G" -> "g"
      [] c = "X" -> "x"
      [] OTHER -> c

\* str.lower()
Lower(s) == [k \in 1..Len(s) |-> ToLowerChar(s[k])]

\* str.islower(): at least one cased character and no uppercase one
IsLower(s) ==
    /\ \E k \in 1..Len(s) : s[k] \in LowerLetters \cup UpperLetters
    /\ \A k \in 1..Len(s) : s[k] \notin UpperLetters

\* c.islower() or c.isdigit() or c in '-_' for every character
AllNameChars(s) ==
    \A k \in 1..Len(s) : s[k] \in LowerLetters \cup Digits \cup {"-", "_"}

Contains(s, c) == \E k \in 1..Len(s) : s[k] = c

RECURSIVE LStrip(_, _)
LStrip(s, c) == IF s # <<>> /\ Head(s) = c THEN LStrip(Tail(s), c) ELSE s

RECURSIVE RStrip(_, _)
RStrip(s, c) ==
    IF s # <<>> /\ s[Len(s)] = c THEN RStrip(SubSeq(s, 1, Len(s) - 1), c) ELSE s

\* str.strip()
Strip(s) == RStrip(LStrip(s, " "), " ")

-----------------------------------------------------------------------------
(* ChannelAction: action values are text; the code compares them raw in   *)
(* some places and lower-cased in others.                                  *)

KEEP == "keep"
ARCHIVE == "archive"
RENAME == "rename"
\* ChannelAction.NEW (NEW is a reserved word of TLA+)
NEW_ACTION == "new"
UPDATE_DESCRIPTION == "update_description"

\* ChannelAction.values()
ChannelActionValues == {KEEP, ARCHIVE, RENAME, NEW_ACTION, UPDATE_DESCRIPTION}

\* str.lower() on the action and flag texts that occur in the model
ActionLower(a) ==
    CASE a = "Keep" -> "keep"
      [] a = "Archive" -> "archive"
      [] a = "Rename" -> "rename"
      [] a = "TRUE" -> "true"
      [] OTHER -> a

MaxNameLen == 80

-----------------------------------------------------------------------------
(* Ledger rows *)

Row(id, name, action, target, shared) ==
    [channel_id |-> id, name |-> name, description |-> <<>>, is_shared |-> shared,
     action |-> action, target_value |-> target]

\* validate_channel without "Prevent archiving shared channels"
validate_channel_NoSharedCheck(ch) ==
    LET action == IF ActionLower(ch.action) = "" THEN KEEP ELSE ActionLower(ch.action)
    IN  IF action \notin ChannelActionValues THEN "Invalid action"
        ELSE IF action \in {KEEP, NEW_ACTION} /\ ch.target_value # <<>>
            THEN "Target value must be empty"
        ELSE IF action = RENAME /\ ch.target_value = <<>>
            THEN "Target value is required"
        ELSE "ok"

\* validate_channel without "Validate target value is empty for keep and new actions"
validate_channel_NoEmptyCheck(ch) ==
    LET action == IF ActionLower(ch.action) = "" THEN KEEP ELSE ActionLower(ch.action)
    IN  IF action \notin ChannelActionValues THEN "Invalid action"
        ELSE IF action = ARCHIVE /\ ActionLower(ch.is_shared) = "true"
            THEN "Cannot archive shared channel"
        ELSE IF action = RENAME /\ ch.target_value = <<>>
            THEN "Target value is required"
        ELSE "ok"

\* channel_data.validate_channel: "ok" or the error it raises
validate_channel(ch) ==
    LET action == IF ActionLower(ch.action) = "" THEN KEEP ELSE ActionLower(ch.action)
    IN  IF action \notin ChannelActionValues THEN "Invalid action"
        ELSE IF action = ARCHIVE /\ ActionLower(ch.is_shared) = "true"
            THEN "Cannot archive shared channel"
        ELSE IF action \in {KEEP, NEW_ACTION} /\ ch.target_value # <<>>
            THEN "Target value must be empty"
        ELSE IF action = RENAME /\ ch.target_value = <<>>
            THEN "Target value is required"
        ELSE "ok"

\* channel_csv.read_channels_from_csv: the per-row checks of the older reader
validate_row_csv(ch) ==
    LET action == ActionLower(ch.action)
    IN  IF action \notin ChannelActionValues THEN "Invalid action"
        ELSE IF action = RENAME /\ ch.target_value = <<>>
            THEN "Target value is required"
        ELSE "ok"

\* read_channels_from_csv / SheetManager.read_channels: every row is validated,
\* the first invalid row raises
ReadErrors(tool, rows) ==
    {k \in 1..Len(rows) :
        (IF tool = "curator" THEN validate_channel(rows[k])
                             ELSE validate_row_csv(rows[k])) # "ok"}

\* the ValueError the read raises: that of the first rejected row, "" when none
ReadError(tool, rows) ==
    IF ReadErrors(tool, rows) = {} THEN ""
    ELSE LET k == CHOOSE n \in ReadErrors(tool, rows) :
                      \A m \in ReadErrors(tool, rows) : n <= m
         IN  IF tool = "curator" THEN validate_channel(rows[k])
                                 ELSE validate_row_csv(rows[k])

-----------------------------------------------------------------------------
(* The workspace (remote system) and its enumeration *)

IdOrder == <<"C1", "C2", "C3">>
Ids == {IdOrder[k] : k \in 1..Len(IdOrder)}

Chan(exists, name, archived) ==
    [exists |-> exists, name |-> name, is_archived |-> archived,
     is_general |-> FALSE, is_shared |-> "false", purpose |-> <<"p">>]

\* three live channels; the ledgers below know C1 and C2
RemoteInits ==
    { [id \in Ids |-> CASE id = "C1" -> Chan(TRUE, <<"a">>, FALSE)
                        [] id = "C2" -> Chan(TRUE, <<"b">>, FALSE)
                        [] OTHER -> Chan(TRUE, <<"c">>, FALSE)] }

\* what conversations_list returns for one channel
ListEntry(r, id) ==
    [id |-> id, name |-> r[id].name, purpose |-> r[id].purpose,
     is_shared |-> r[id].is_shared, is_archived |-> r[id].is_archived]

RECURSIVE ListFrom(_, _, _)
ListFrom(r, k, excl) ==
    IF k > Len(IdOrder) THEN <<>>
    ELSE LET id == IdOrder[k]
         IN  (IF r[id].exists /\ ~(excl /\ r[id].is_archived)
                 THEN <<ListEntry(r, id)>> ELSE <<>>) \o ListFrom(r, k + 1, excl)

\* conversations_list(exclude_archived=excl)
conversations_list(r, excl) == ListFrom(r, 1, excl)

\* get_all_channels: every entity of every page is appended as it comes; the
\* remote may return an entity again on a following page, in which case it is
\* appended again.  "fail" stands for the exception it raises.
get_all_channels(r) ==
    LET live == conversations_list(r, TRUE)
    IN  {[ok |-> FALSE, list |-> <<>>], [ok |-> TRUE, list |-> live]}
        \cup (IF live = <<>> THEN {}
              ELSE {[ok |-> TRUE, list |-> live \o <<live[1]>>]})

\* get_all_channels: "Save activity data to cache (skip if dry run)", reached
\* only when the enumeration did not raise
SavesCache(res, dry_run) == res.ok /\ ~dry_run

\* get_channel_info: the channel, or {} (here: exists = FALSE) on SlackApiError
NoInfo == [exists |-> FALSE, name |-> <<>>, is_archived |-> FALSE,
           is_general |-> FALSE, is_shared |-> "false", purpose |-> <<>>]

get_channel_info(r, id, fault) ==
    IF fault = "info" \/ id \notin Ids \/ ~r[id].exists THEN NoInfo ELSE r[id]

-----------------------------------------------------------------------------
(* The activity cache: load_cache, save_cache, apply_cached_activity *)

\* "Cache expiration in seconds (24 hours)"
CACHE_EXPIRATION == 86400

\* the clock when the model starts, and how far it moves between two runs
StartClock == 1000000
TickStep == 43200

\* a cache dict {'timestamp': ..., 'activity': {...}}; either key may be missing.
\* activity maps a channel id to its cached entry; an entry carries, besides
\* the message ts, the time at which the history API returned it (obtained),
\* which the program does not store
Dict(has_timestamp, timestamp, has_activity, act) ==
    [has_timestamp |-> has_timestamp, timestamp |-> timestamp,
     has_activity |-> has_activity, activity |-> act]

\* {}
EmptyDict == Dict(FALSE, 0, FALSE, <<>>)

\* bool(cache)
Truthy(cache) == cache.has_timestamp \/ cache.has_activity

\* cache.get('timestamp', 0)
GetTimestamp(cache) == IF cache.has_timestamp THEN cache.timestamp ELSE 0

\* the file: absent, present but not parseable, or holding a dict
NoFile == [kind |-> "absent", content |-> EmptyDict]
UnreadableFile == [kind |-> "unreadable", content |-> EmptyDict]
FileOf(cache) == [kind |-> "entry", content |-> cache]

\* load_cache without the expiration test
load_cache_NoExpiry(file, t) ==
    IF file.kind # "entry" THEN EmptyDict ELSE file.content

\* load_cache at time t
load_cache(file, t) ==
    IF file.kind = "absent" THEN EmptyDict
    ELSE IF file.kind = "unreadable" THEN EmptyDict
    ELSE IF t - GetTimestamp(file.content) > CACHE_EXPIRATION THEN EmptyDict
    ELSE file.content

\* channel["latest"]: ts = 0 stands for no "latest" key
NoLatest == [ts |-> 0, obtained |-> 0, from_cache |-> FALSE]

\* "latest" of the last element of channels that has this id and a "latest":
\* the one save_cache keeps
LastLatest(chs, id) ==
    chs[CHOOSE k \in 1..Len(chs) :
            /\ chs[k].id = id /\ chs[k].latest.ts # 0
            /\ \A m \in (k + 1)..Len(chs) :
                  ~(chs[m].id = id /\ chs[m].latest.ts # 0)].latest

\* save_cache at time t: the file it leaves
save_cache(chs, t) ==
    LET have == {chs[k].id : k \in {m \in 1..Len(chs) : chs[m].latest.ts # 0}}
        data == [id \in have |->
                    [ts |-> LastLatest(chs, id).ts,
                     obtained |-> LastLatest(chs, id).obtained]]
    IN  FileOf(Dict(TRUE, t, TRUE, data))

\* apply_cached_activity
apply_cached_activity(chs, cache) ==
    IF ~Truthy(cache) \/ ~cache.has_activity THEN chs
    ELSE [k \in 1..Len(chs) |->
            IF chs[k].id \in DOMAIN cache.activity
            THEN [chs[k] EXCEPT !.latest =
                     [ts |-> cache.activity[chs[k].id].ts,
                      obtained |-> cache.activity[chs[k].id].obtained,
                      from_cache |-> TRUE]]
            ELSE chs[k]]

\* FetchHistory in which one failing fetch leaves every channel of the run as
\* it was
FetchHistory_AllOrNothing(chs, todo, failing, act, t) ==
    IF todo \cap failing # {} THEN chs
    ELSE [k \in 1..Len(chs) |->
            IF k \in todo /\ act[chs[k].id] # 0
            THEN [chs[k] EXCEPT !.latest =
                     [ts |-> act[chs[k].id], obtained |-> t, from_cache |-> FALSE]]
            ELSE chs[k]]

\* fetch_channel_history for the channels in todo, at time t; the fetches of
\* the channels in failing give up (rate limits, errors) and leave them as
\* they are, and so does a channel without messages
FetchHistory(chs, todo, failing, act, t) ==
    [k \in 1..Len(chs) |->
        IF k \in todo /\ k \notin failing /\ act[chs[k].id] # 0
        THEN [chs[k] EXCEPT !.latest =
                 [ts |-> act[chs[k].id], obtained |-> t, from_cache |-> FALSE]]
        ELSE chs[k]]

\* get_all_channels: the channels whose history is fetched: those left without
\* "latest" by the cache, or all of them
channels_to_update(chs, cache, force_refresh) ==
    IF ~force_refresh /\ Truthy(cache)
    THEN {k \in 1..Len(chs) : apply_cached_activity(chs, cache)[k].latest.ts = 0}
    ELSE 1..Len(chs)

\* get_all_channels, after the paging: activity from the cache or from the
\* history API
WithActivity(chs, cache, force_refresh, failing, act, t) ==
    LET todo == channels_to_update(chs, cache, force_refresh)
    IN  IF ~force_refresh /\ Truthy(cache)
        THEN FetchHistory(apply_cached_activity(chs, cache), todo, failing, act, t)
        ELSE FetchHistory(chs, todo, failing, act, t)

\* get_all_channels not running
NoEnum ==
    [pc |-> "idle", force_refresh |-> FALSE, dry_run |-> FALSE, cache |-> EmptyDict,
     file0 |-> NoFile, channels |-> <<>>, cursor |-> 0, page |-> 1,
     rate_limit_count |-> 0, hits |-> 0, worst |-> 0, error |-> "", runs |-> 0,
     started |-> 0, failed |-> {}, save |-> "-"]

-----------------------------------------------------------------------------
(* Initial states: the ledger the operator left, the workspace, the flags *)

LongName == [k \in 1..(MaxNameLen + 1) |-> "a"]

RowsC1 ==
    { Row("C1", <<"a">>, "keep", <<>>, "false"),
      Row("C1", <<"a">>, "archive", <<>>, "false"),
      Row("C1", <<"a">>, "archive", <<"#", "b">>, "false"),
      Row("C1", <<"a">>, "archive", <<"z">>, "false"),
      Row("C1", <<"a">>, "archive", <<"B">>, "false"),
      Row("C1", <<"a">>, "archive", <<>>, "true"),
      Row("C1", <<"a">>, "Archive", <<>>, "false"),
      Row("C1", <<"a">>, "Archive", <<"B">>, "false"),
      Row("C1", <<"a">>, "rename", <<"x">>, "false"),
      Row("C1", <<"a">>, "rename", <<"b">>, "false"),
      Row("C1", <<"a">>, "rename", <<"1">>, "false"),
      Row("C1", <<"a">>, "rename", <<"X">>, "false"),
      Row("C1", <<"a">>, "rename", <<"x", ".">>, "false"),
      Row("C1", <<"a">>, "rename", LongName, "false"),
      Row("C1", <<"a">>, "rename", <<>>, "false"),
      Row("C1", <<"a">>, "Rename", <<"b">>, "false"),
      Row("C1", <<"z">>, "rename", <<"x">>, "false"),
      Row("C1", <<"z">>, "Rename", <<"x">>, "false"),
      Row("C1", <<"a">>, "new", <<>>, "false"),
      Row("C1", <<"a">>, "", <<>>, "false"),
      Row("C1", <<"a">>, "keep", <<"x">>, "false"),
      Row("C1", <<"a">>, "keep", <<>>, "true"),
      Row("C1", <<"a">>, "merge", <<"b">>, "false"),
      Row("C1", <<>>, "archive", <<>>, "false"),
      Row("", <<"a">>, "archive", <<>>, "false") }

RowsC2 ==
    { Row("C2", <<"b">>, "keep", <<>>, "false"),
      Row("C2", <<"b">>, "archive", <<>>, "false"),
      Row("C2", <<"b">>, "archive", <<"x">>, "false"),
      Row("C2", <<"b">>, "rename", <<"x">>, "false"),
      Row("C2", <<"b">>, "", <<>>, "false") }

\* rows of C1 that are paired with a row of C2
PairC1 ==
    { Row("C1", <<"a">>, "keep", <<>>, "false"),
      Row("C1", <<"a">>, "archive", <<>>, "false"),
      Row("C1", <<"a">>, "archive", <<"#", "b">>, "false"),
      Row("C1", <<"a">>, "rename", <<"x">>, "false"),
      Row("C1", <<"a">>, "rename", <<"b">>, "false"),
      Row("C1", <<"a">>, "Rename", <<"b">>, "false"),
      Row("C1", <<"z">>, "rename", <<"x">>, "false"),
      Row("C1", <<"a">>, "archive", <<>>, "true"),
      Row("C1", <<"a">>, "", <<>>, "false") }

\* rows of C1 that also come after a row of C2
AfterC2 ==
    { Row("C1", <<"a">>, "archive", <<>>, "false"),
      Row("C1", <<"a">>, "rename", <<"x">>, "false"),
      Row("C1", <<"a">>, "archive", <<>>, "true") }

\* a rename that frees a name, followed by a rename to that name
RenameChain ==
    << Row("C1", <<"a">>, "rename", <<"x">>, "false"),
       Row("C2", <<"b">>, "rename", <<"a">>, "false") >>

Ledgers ==
    {<<>>} \cup {<<r>> : r \in RowsC1 \cup RowsC2}
    \cup {<<r1, r2>> : r1 \in PairC1, r2 \in RowsC2}
    \cup {<<r2, r1>> : r1 \in AfterC2, r2 \in RowsC2}
    \cup {RenameChain}

DefaultBatch == 10

\* slack_channel_curator.py takes --batch (0 = individual confirmation);
\* slack_channel_manager.py has no such flag and runs with the default
Configs ==
    {[tool |-> "curator", dry_run |-> d, batch_size |-> b] :
        d \in BOOLEAN, b \in {0, 1, DefaultBatch}}
    \cup {[tool |-> "manager", dry_run |-> d, batch_size |-> DefaultBatch] :
        d \in BOOLEAN}

NoAp == [rec |-> 0, action |-> ""]

\* no call of the handler under way, and no outcome yet
NoOutcome == [outcome |-> "-", msg |-> "", calls |-> <<>>, remote |-> <<>>]
NoHandlerCall ==
    [pc |-> "-", r |-> <<>>, id |-> "", target_channel |-> <<>>, fault |-> "none",
     out |-> NoOutcome]
NoLast == [rec |-> 0, result |-> "-", stale |-> "", handler |-> "-"]

\* no enumeration followed request by request
NoFetch ==
    [pc |-> "-", pages |-> 0, per_page |-> 0, cached |-> 0, page |-> 1,
     rate_limit_count |-> 0, fetched |-> 0, todo |-> 0, k |-> 0, tasks |-> 0,
     started |-> 0, s1 |-> 0, s2 |-> 0, s3 |-> 0, gathers |-> 0, gave_up |-> FALSE]

\* the summary the executor prints in its finally block
\* how: "completed", "quit" (KeyboardInterrupt) or "error" (any other exception)
NoSummary == [printed |-> FALSE, how |-> "-", successful |-> 0, failed |-> 0, skipped |-> 0]
Summary(how, c) == [printed |-> TRUE, how |-> how, successful |-> c.successful,
                    failed |-> c.failed, skipped |-> c.skipped]

Init ==
    /\ cfg \in Configs
    /\ ledger \in Ledgers
    /\ ledger0 = ledger
    /\ wrote = FALSE
    /\ remote \in RemoteInits
    /\ channels = <<>>
    /\ order = <<>>
    /\ current = <<>>
    /\ pc = "read"
    /\ i = 0
    /\ batch = <<>>
    /\ j = 0
    /\ bmode = "-"
    /\ ap = NoAp
    /\ counts = [successful |-> 0, failed |-> 0, skipped |-> 0]
    /\ okids = <<>>
    /\ calls = <<>>
    /\ last = NoLast
    /\ retargets = 0
    /\ externals = 0
    /\ pre = [ok |-> FALSE, rows |-> <<>>]
    /\ error = ""
    /\ contacted = FALSE
    /\ cache_written = FALSE
    /\ summary = NoSummary
    /\ approved_all = FALSE
    /\ quit = FALSE
    /\ routed = <<>>
    /\ now = StartClock
    /\ activity = [id \in Ids |-> 0]
    /\ cache_file = NoFile
    /\ en = NoEnum
    /\ hd = NoHandlerCall
    /\ ft = NoFetch

-----------------------------------------------------------------------------
(* main(): what follows the ledger read *)

\* main(): rows reported as "invalid channel data" (missing id, missing name,
\* malformed redirect target of an archive)
InvalidRows(rows) ==
    {k \in 1..Len(rows) :
        \/ rows[k].channel_id = ""
        \/ rows[k].name = <<>>
        \/ /\ rows[k].action = ARCHIVE
           /\ rows[k].target_value # <<>>
           /\ LET target == LStrip(rows[k].target_value, "#")
              IN  ~IsLower(target) \/ Contains(target, " ") \/ Contains(target, ".")}

\* main(): is the row handed to the executor (compared raw, not lower-cased)
IsPending(tool, ch) ==
    IF tool = "curator" THEN ch.action # KEEP /\ ch.action # NEW_ACTION
                        ELSE ch.action # KEEP

RECURSIVE IndicesFrom(_, _, _)
IndicesFrom(tool, rows, k) ==
    IF k > Len(rows) THEN <<>>
    ELSE (IF IsPending(tool, rows[k]) THEN <<k>> ELSE <<>>)
         \o IndicesFrom(tool, rows, k + 1)

\* main(): channels_to_process, as indices into channels
channels_to_process(tool, rows) == IndicesFrom(tool, rows, 1)

-----------------------------------------------------------------------------
(* execute_channel_actions: the priority sort *)

action_priority(ch) ==
    LET action == ActionLower(ch.action)
    IN  IF action = "" THEN 3
        ELSE IF action = KEEP THEN 2
        ELSE IF action = RENAME THEN 0
        ELSE IF action = ARCHIVE THEN 1
        ELSE 3

\* the records left in the order of the input
SortByPriority_InputOrder(rows, idx) == idx

\* sorted(channels, key=action_priority): a stable sort
SortByPriority(rows, idx) ==
    LET Pick(p) == SelectSeq(idx, LAMBDA k : action_priority(rows[k]) = p)
    IN  Pick(0) \o Pick(1) \o Pick(2) \o Pick(3)

\* channel_renamer.execute_channel_actions: its own action_priority, on the
\* action as written in the file
MERGE == "merge"

renamer_action_priority(ch) ==
    IF ch.action = KEEP THEN 3
    ELSE IF ch.action = RENAME THEN 0
    ELSE IF ch.action = ARCHIVE THEN 1
    ELSE IF ch.action = MERGE THEN 2
    ELSE 4

\* channel_renamer: channels = sorted(channels, key=action_priority)
renamer_sorted(rows) ==
    LET idx == [k \in 1..Len(rows) |-> k]
        Pick(p) == SelectSeq(idx, LAMBDA k : renamer_action_priority(rows[k]) = p)
    IN  Pick(0) \o Pick(1) \o Pick(2) \o Pick(3) \o Pick(4)

-----------------------------------------------------------------------------
(* ChannelActionHandler *)

Faults == {"none", "info", "list", "join_error", "post_not_in_channel", "post_error",
           "call_error", "call_not_ok", "call_exception", "call_adjusted"}

\* one remote call of the handler
Call(op, id, arg) == [op |-> op, id |-> id, arg |-> arg]

Outcome(outcome, msg, cs, r) == [outcome |-> outcome, msg |-> msg, calls |-> cs, remote |-> r]

FirstNamed(list, name) ==
    IF \E k \in 1..Len(list) : list[k].name = name
    THEN list[CHOOSE k \in 1..Len(list) :
                /\ list[k].name = name
                /\ \A m \in 1..(k - 1) : list[m].name # name]
    ELSE [id |-> "", name |-> <<>>, purpose |-> <<>>, is_shared |-> "", is_archived |-> FALSE]

\* the remote refuses a name another channel holds (name_taken)
NameTaken(r, id, name) ==
    \E other \in Ids \ {id} : r[other].exists /\ r[other].name = name

\* the name the remote gives the channel when it modifies the requested one
\* "to meet Slack's requirements"
AdjustedName(new_name) == new_name \o <<"-">>

\* ChannelActionHandler.rename_channel
rename_channel(r, id, new_name, fault) ==
    IF new_name = <<>> THEN Outcome("failure", "empty", <<>>, r)
    ELSE IF Len(new_name) > MaxNameLen THEN Outcome("failure", "too_long", <<>>, r)
    ELSE IF ~AllNameChars(new_name) \/ Contains(new_name, ".")
        THEN Outcome("failure", "bad_chars", <<>>, r)
    ELSE LET cs == <<Call("rename", id, new_name)>>
         IN  IF fault = "call_error" THEN Outcome("failure", "error", cs, r)
             ELSE IF fault = "call_exception" THEN Outcome("raise", "", cs, r)
             ELSE IF NameTaken(r, id, new_name) THEN Outcome("failure", "name_taken", cs, r)
             ELSE IF fault = "call_not_ok" THEN Outcome("none", "", cs, r)
             ELSE IF fault = "call_adjusted"
                 THEN Outcome("success", "renamed_modified", cs,
                              [r EXCEPT ![id].name = AdjustedName(new_name)])
             ELSE Outcome("success", "renamed", cs, [r EXCEPT ![id].name = new_name])

\* archive_channel without the lookup of the redirect target among the channels
archive_channel_NoTargetCheck(r, id, target_channel, fault) ==
    IF ~r[id].exists THEN Outcome("failure", "not_found", <<>>, r)
    ELSE IF fault = "info" THEN Outcome("failure", "error", <<>>, r)
    ELSE IF r[id].is_archived THEN Outcome("failure", "already_archived", <<>>, r)
    ELSE IF r[id].is_general THEN Outcome("failure", "general", <<>>, r)
    ELSE
      LET name == LStrip(target_channel, "#")
          target == FirstNamed(conversations_list(r, FALSE), name)
          notice == IF target_channel = <<>> THEN <<>>
                    ELSE <<Call("join", id, <<>>), Call("post", id, target.name)>>
          cs == notice \o <<Call("archive", id, <<>>)>>
      IN  IF target_channel # <<>> /\ fault = "list"
              THEN Outcome("failure", "verify_failed", <<>>, r)
          ELSE IF target_channel # <<>> /\ fault = "post_not_in_channel"
              THEN Outcome("failure", "not_in_channel", notice, r)
          \* "join_error" and "post_error": the SlackApiError is passed over
          ELSE IF fault = "call_error" THEN Outcome("failure", "error", cs, r)
          ELSE IF fault = "call_exception" THEN Outcome("raise", "", cs, r)
          ELSE IF fault = "call_not_ok" THEN Outcome("none", "", cs, r)
          ELSE Outcome("success", "archived", cs, [r EXCEPT ![id].is_archived = TRUE])

\* archive_channel passing over every failure to post the redirect notice
archive_channel_PostNeverBlocks(r, id, target_channel, fault) ==
    IF ~r[id].exists THEN Outcome("failure", "not_found", <<>>, r)
    ELSE IF fault = "info" THEN Outcome("failure", "error", <<>>, r)
    ELSE IF r[id].is_archived THEN Outcome("failure", "already_archived", <<>>, r)
    ELSE IF r[id].is_general THEN Outcome("failure", "general", <<>>, r)
    ELSE
      LET name == LStrip(target_channel, "#")
          target == FirstNamed(conversations_list(r, FALSE), name)
          notice == IF target_channel = <<>> THEN <<>>
                    ELSE <<Call("join", id, <<>>), Call("post", id, target.name)>>
          cs == notice \o <<Call("archive", id, <<>>)>>
      IN  IF target_channel # <<>> /\ fault = "list"
              THEN Outcome("failure", "verify_failed", <<>>, r)
          ELSE IF target_channel # <<>> /\ target.id = ""
              THEN Outcome("failure", "target_missing", <<>>, r)
          ELSE IF target_channel # <<>> /\ target.is_archived
              THEN Outcome("failure", "target_archived", <<>>, r)
          \* "join_error" and "post_error": the SlackApiError is passed over
          ELSE IF fault = "call_error" THEN Outcome("failure", "error", cs, r)
          ELSE IF fault = "call_exception" THEN Outcome("raise", "", cs, r)
          ELSE IF fault = "call_not_ok" THEN Outcome("none", "", cs, r)
          ELSE Outcome("success", "archived", cs, [r EXCEPT ![id].is_archived = TRUE])

\* ChannelActionHandler.archive_channel
archive_channel(r, id, target_channel, fault) ==
    IF ~r[id].exists THEN Outcome("failure", "not_found", <<>>, r)
    ELSE IF fault = "info" THEN Outcome("failure", "error", <<>>, r)
    ELSE IF r[id].is_archived THEN Outcome("failure", "already_archived", <<>>, r)
    ELSE IF r[id].is_general THEN Outcome("failure", "general", <<>>, r)
    ELSE
      LET name == LStrip(target_channel, "#")
          target == FirstNamed(conversations_list(r, FALSE), name)
          notice == IF target_channel = <<>> THEN <<>>
                    ELSE <<Call("join", id, <<>>), Call("post", id, target.name)>>
          cs == notice \o <<Call("archive", id, <<>>)>>
      IN  IF target_channel # <<>> /\ fault = "list"
              THEN Outcome("failure", "verify_failed", <<>>, r)
          ELSE IF target_channel # <<>> /\ target.id = ""
              THEN Outcome("failure", "target_missing", <<>>, r)
          ELSE IF target_channel # <<>> /\ target.is_archived
              THEN Outcome("failure", "target_archived", <<>>, r)
          ELSE IF target_channel # <<>> /\ fault = "post_not_in_channel"
              THEN Outcome("failure", "not_in_channel", notice, r)
          \* "join_error" and "post_error": the SlackApiError is passed over
          ELSE IF fault = "call_error" THEN Outcome("failure", "error", cs, r)
          ELSE IF fault = "call_exception" THEN Outcome("raise", "", cs, r)
          ELSE IF fault = "call_not_ok" THEN Outcome("none", "", cs, r)
          ELSE Outcome("success", "archived", cs, [r EXCEPT ![id].is_archived = TRUE])

\* execute_action: "except Exception": what an operation raises becomes a failure
Caught(res) ==
    IF res.outcome = "raise" THEN Outcome("failure", "unexpected", res.calls, res.remote)
    ELSE res

\* ChannelActionHandler.execute_action
execute_action(r, id, action, target_value, fault) ==
    IF action = KEEP THEN Outcome("success", "kept", <<>>, r)
    ELSE IF action = ARCHIVE THEN Caught(archive_channel(r, id, target_value, fault))
    ELSE IF action = RENAME
        THEN IF target_value = <<>> THEN Outcome("failure", "no_name", <<>>, r)
             ELSE Caught(rename_channel(r, id, target_value, fault))
    ELSE Outcome("failure", "unknown_action", <<>>, r)

\* Stale without the comparison of the live name with the recorded name
Stale_NoNameCheck(ch, info) ==
    IF ~info.exists THEN "gone"
    ELSE IF info.is_archived THEN "archived"
    ELSE ""

\* process_single_channel: the re-verification of the live state.  "stale" is
\* why the record is skipped, "" when the live state is as the ledger has it.
Stale(ch, info) ==
    IF ~info.exists THEN "gone"
    ELSE IF info.is_archived THEN "archived"
    ELSE IF info.name # ch.name THEN "renamed"
    ELSE ""

\* process_single_channel without its "if dry_run" branch
process_single_channel_NoDryRun(ch, r, dry_run, fault) ==
    LET action == ActionLower(ch.action)
        info == get_channel_info(r, ch.channel_id, fault)
        res == execute_action(r, ch.channel_id, action, ch.target_value, fault)
        \* each call is logged with the live state fetched before it and the
        \* name the row had then
        Log(cs) == [k \in 1..Len(cs) |->
                      [op |-> cs[k].op, id |-> cs[k].id, arg |-> cs[k].arg,
                       seen |-> info, recorded |-> ch.name, row |-> ch]]
        \* handler: what execute_action returned, "-" when it was not called
        Done(result, stale, cs, rr, row, handler) ==
            [result |-> result, stale |-> stale, calls |-> Log(cs), remote |-> rr,
             row |-> row, handler |-> handler]
    IN  IF Stale(ch, info) # "" THEN Done("skipped", Stale(ch, info), <<>>, r, ch, "-")
        ELSE IF res.outcome = "success"
            THEN Done("success", "", res.calls, res.remote,
                      IF action = RENAME THEN [ch EXCEPT !.name = ch.target_value] ELSE ch,
                      res.outcome)
        ELSE IF res.outcome = "failure"
            THEN Done("failed", "", res.calls, res.remote, ch, res.outcome)
        ELSE Done("skipped", "", res.calls, res.remote, ch, res.outcome)

\* process_single_channel: result, the calls issued, the workspace and the
\* row afterwards
process_single_channel(ch, r, dry_run, fault) ==
    LET action == ActionLower(ch.action)
        info == get_channel_info(r, ch.channel_id, fault)
        res == execute_action(r, ch.channel_id, action, ch.target_value, fault)
        \* each call is logged with the live state fetched before it and the
        \* name the row had then
        Log(cs) == [k \in 1..Len(cs) |->
                      [op |-> cs[k].op, id |-> cs[k].id, arg |-> cs[k].arg,
                       seen |-> info, recorded |-> ch.name, row |-> ch]]
        \* handler: what execute_action returned, "-" when it was not called
        Done(result, stale, cs, rr, row, handler) ==
            [result |-> result, stale |-> stale, calls |-> Log(cs), remote |-> rr,
             row |-> row, handler |-> handler]
    IN  IF dry_run THEN Done("success", "", <<>>, r, ch, "-")
        ELSE IF Stale(ch, info) # "" THEN Done("skipped", Stale(ch, info), <<>>, r, ch, "-")
        ELSE IF res.outcome = "success"
            THEN Done("success", "", res.calls, res.remote,
                      IF action = RENAME THEN [ch EXCEPT !.name = ch.target_value] ELSE ch,
                      res.outcome)
        ELSE IF res.outcome = "failure"
            THEN Done("failed", "", res.calls, res.remote, ch, res.outcome)
        ELSE Done("skipped", "", res.calls, res.remote, ch, res.outcome)

-----------------------------------------------------------------------------
(* get_user_approval *)

\* the names the approval validates against: current_channels when it is
\* given and not empty, else a fresh conversations_list(exclude_archived=True)
ValidationList(cur, r) == IF cur # <<>> THEN cur ELSE conversations_list(r, TRUE)

HasName(list, name) == \E k \in 1..Len(list) : list[k].name = name

\* get_user_approval: the first check that stops at a retarget prompt, or "ok"
\* when the approve prompt is reached.  action is the text the caller passed.
ApprovalCheck(action, target_value, cur, r) ==
    IF action = ARCHIVE /\ target_value # <<>>
        THEN IF HasName(ValidationList(cur, r), LStrip(target_value, "#"))
             THEN "ok" ELSE "target_not_found"
    ELSE IF action = RENAME /\ target_value # <<>>
        THEN IF Len(target_value) > MaxNameLen THEN "too_long"
             ELSE IF \/ ~IsLower(target_value)
                     \/ Contains(target_value, " ")
                     \/ Contains(target_value, ".") THEN "bad_format"
             ELSE IF ~AllNameChars(target_value) THEN "bad_chars"
             ELSE IF HasName(ValidationList(cur, r), target_value) THEN "taken"
             ELSE "ok"
    ELSE "ok"

\* what the operator may type at a retarget prompt
RetargetInputs == { <<" ", "X">>, <<"b">>, <<" ">>, <<"x", ".">>, <<"1">> }

\* input(...).strip().lower()
Entered(raw) == Lower(Strip(raw))

\* the retarget loops: an empty entry is refused everywhere; an entry with a
\* space or a period is refused only in the not-found and name-taken loops
EntryRefused(kind, new) ==
    \/ new = <<>>
    \/ /\ kind \in {"target_not_found", "taken"}
       /\ Contains(new, " ") \/ Contains(new, ".")

-----------------------------------------------------------------------------
(* Reconciliation and the post-execution ledger update of main() *)

\* channel_data.create_channel_dict
create_channel_dict(channel, is_new) ==
    [channel_id |-> channel.id, name |-> channel.name, description |-> channel.purpose,
     is_shared |-> ActionLower(channel.is_shared),
     action |-> IF is_new THEN NEW_ACTION ELSE KEEP, target_value |-> <<>>]

\* next((ch for ch in channels if ch["channel_id"] == channel_id), None): 0 for None
FirstWithId(rows, id) ==
    IF \E k \in 1..Len(rows) : rows[k].channel_id = id
    THEN CHOOSE k \in 1..Len(rows) :
            /\ rows[k].channel_id = id
            /\ \A m \in 1..(k - 1) : rows[m].channel_id # id
    ELSE 0

\* RefreshRow that replaces the row by a fresh one built from the live entry
RefreshRow_Overwrite(row, slack_channel) == create_channel_dict(slack_channel, FALSE)

\* slack_channel_curator.main: "Update existing channels with fresh data"
RefreshRow(row, slack_channel) ==
    [row EXCEPT !.description = create_channel_dict(slack_channel, FALSE).description,
                !.name = IF row.action # RENAME THEN slack_channel.name ELSE row.name]

RECURSIVE RefreshFrom(_, _, _)
RefreshFrom(rows, live, k) ==
    IF k > Len(live) THEN rows
    ELSE LET hit == FirstWithId(rows, live[k].id)
         IN  RefreshFrom(IF hit = 0 THEN rows
                         ELSE [rows EXCEPT ![hit] = RefreshRow(rows[hit], live[k])],
                         live, k + 1)

\* NewRowsFrom without the test against the ids the ledger already has
RECURSIVE NewRowsFrom_NoIdTest(_, _, _)
NewRowsFrom_NoIdTest(existing_ids, live, k) ==
    IF k > Len(live) THEN <<>>
    ELSE <<create_channel_dict(live[k], TRUE)>> \o NewRowsFrom_NoIdTest(existing_ids, live, k + 1)

\* main: "Add new channels": one row per live entry whose id was not in the ledger
RECURSIVE NewRowsFrom(_, _, _)
NewRowsFrom(existing_ids, live, k) ==
    IF k > Len(live) THEN <<>>
    ELSE (IF live[k].id \notin existing_ids
             THEN <<create_channel_dict(live[k], TRUE)>> ELSE <<>>)
         \o NewRowsFrom(existing_ids, live, k + 1)

\* reconcile without "Remove channels that are no longer active"
reconcile_KeepGone(tool, rows, live) ==
    LET existing_ids == {rows[k].channel_id : k \in 1..Len(rows)}
        fresh == IF tool = "curator" THEN RefreshFrom(rows, live, 1) ELSE rows
    IN  fresh \o NewRowsFrom(existing_ids, live, 1)

\* main: the merge of the ledger rows with the live list
reconcile(tool, rows, live) ==
    LET existing_ids == {rows[k].channel_id : k \in 1..Len(rows)}
        current_ids == {live[k].id : k \in 1..Len(live)}
        active == SelectSeq(rows, LAMBDA ch : ch.channel_id \in current_ids)
        fresh == IF tool = "curator" THEN RefreshFrom(active, live, 1) ELSE active
    IN  fresh \o NewRowsFrom(existing_ids, live, 1)

\* main: "Clear successful actions"
ClearRow(tool, ch) ==
    [ch EXCEPT
        !.name = IF tool = "curator" /\ ch.action = RENAME THEN ch.target_value ELSE ch.name,
        !.description = IF /\ tool = "curator"
                           /\ ch.action # RENAME
                           /\ ch.action = UPDATE_DESCRIPTION
                        THEN ch.target_value ELSE ch.description,
        !.action = KEEP,
        !.target_value = <<>>]

clear_successful(tool, rows, ids) ==
    LET done == {ids[k] : k \in 1..Len(ids)}
        left == SelectSeq(rows, LAMBDA ch : ch.channel_id \notin done \/ ch.action # ARCHIVE)
    IN  [k \in 1..Len(left) |->
            IF left[k].channel_id \in done THEN ClearRow(tool, left[k]) ELSE left[k]]

-----------------------------------------------------------------------------
(* The run: main() of either entry script *)

\* read_channels_from_csv / sheet.read_channels: a rejected row ends the run
ReadLedger ==
    /\ pc = "read"
    /\ IF ReadErrors(cfg.tool, ledger) # {}
          THEN pc' = "done" /\ channels' = channels
          ELSE pc' = "main" /\ channels' = ledger
    /\ error' = ReadError(cfg.tool, ledger)
    /\ UNCHANGED <<enumvars, hd, ft>>
    /\ UNCHANGED <<cfg, ledger, ledger0, wrote, remote, order, current, i, batch, j,
                   bmode, ap, counts, okids, calls, last, retargets, externals, pre,
                   contacted, cache_written, summary, approved_all, quit, routed>>

\* main: validation of the rows read, then either the executor or the refresh
MainDispatch ==
    /\ pc = "main"
    /\ pc' = IF channels = <<>> THEN "refresh"
             ELSE IF InvalidRows(channels) # {} THEN "done"
             ELSE IF channels_to_process(cfg.tool, channels) = <<>> THEN "refresh"
             ELSE "exec"
    /\ error' = IF channels # <<>> /\ InvalidRows(channels) # {}
                   THEN "Found invalid channel data" ELSE error
    /\ UNCHANGED <<enumvars, hd, ft>>
    /\ UNCHANGED <<cfg, ledger, ledger0, wrote, remote, channels, order, current, i,
                   batch, j, bmode, ap, counts, okids, calls, last, retargets,
                   externals, pre, contacted, cache_written, summary, approved_all, quit,
                   routed>>

\* execute_channel_actions up to the loop: the sort and the live snapshot
ExecStart ==
    /\ pc = "exec"
    /\ order' = SortByPriority(channels, channels_to_process(cfg.tool, channels))
    /\ \E res \in get_all_channels(remote) :
          /\ cache_written' = (cache_written \/ SavesCache(res, cfg.dry_run))
          /\ IF res.ok
                THEN /\ current' = res.list /\ pc' = "loop" /\ i' = 1
                     /\ summary' = summary
                ELSE /\ current' = current /\ pc' = "post_exec" /\ i' = i
                     /\ summary' = Summary("error", counts)
    /\ contacted' = TRUE
    /\ UNCHANGED <<enumvars, hd, ft>>
    /\ UNCHANGED <<cfg, ledger, ledger0, wrote, remote, channels, batch, j, bmode, ap,
                   counts, okids, calls, last, retargets, externals, pre, error,
                   approved_all, quit, routed>>

\* the loop went on after the operator's 'q'
Interrupted_Continue == "loop"

\* where KeyboardInterrupt takes the executor: out of the loop, to the summary
\* of the finally block and the return
Interrupted == "post_exec"

\* the record has been dealt with: the loop it is in goes on to the next one
Advance ==
    IF bmode = "-" THEN i' = i + 1 /\ pc' = "loop" /\ j' = j
                   ELSE j' = j + 1 /\ pc' = "batch_run" /\ i' = i

\* execute_channel_actions: one pass through the head of the for loop
ExecLoop ==
    /\ pc = "loop"
    /\ IF i > Len(order)
          THEN /\ pc' = "post_exec"
               /\ summary' = Summary("completed", counts)
               /\ UNCHANGED <<i, batch, ap, counts, routed>>
       ELSE LET ch == channels[order[i]]
                action == ActionLower(ch.action)
            IN  IF ch.channel_id = "" \/ ch.name = <<>>
                   THEN /\ counts' = [counts EXCEPT !.skipped = @ + 1]
                        /\ i' = i + 1
                        /\ UNCHANGED <<pc, batch, ap, summary, routed>>
                ELSE IF action = "" \/ action = KEEP
                   THEN i' = i + 1 /\ UNCHANGED <<pc, batch, ap, counts, summary, routed>>
                ELSE IF action \notin ChannelActionValues
                   THEN /\ counts' = [counts EXCEPT !.skipped = @ + 1]
                        /\ i' = i + 1
                        /\ UNCHANGED <<pc, batch, ap, summary, routed>>
                ELSE IF cfg.batch_size > 0
                   THEN /\ batch' = Append(batch, order[i])
                        /\ IF Len(batch') >= cfg.batch_size \/ i = Len(order)
                              THEN pc' = "batch_prompt" /\ i' = i
                              ELSE pc' = pc /\ i' = i + 1
                        /\ UNCHANGED <<ap, counts, summary, routed>>
                ELSE /\ pc' = "approve"
                     /\ ap' = [rec |-> order[i], action |-> action]
                     /\ routed' = Append(routed, order[i])
                     /\ UNCHANGED <<i, batch, counts, summary>>
    /\ UNCHANGED <<enumvars, hd, ft>>
    /\ UNCHANGED <<cfg, ledger, ledger0, wrote, remote, channels, order, current, j,
                   bmode, okids, calls, last, retargets, externals, pre, error,
                   contacted, cache_written, approved_all, quit>>

\* "Small delay between batches": await asyncio.sleep(0.5), as an entry of calls
Pause ==
    [op |-> "sleep", id |-> "", arg |-> <<>>, seen |-> NoInfo, recorded |-> <<>>,
     row |-> Row("", <<>>, "", <<>>, "")]

\* the batch prompt: approve all, skip all, review individually, quit
BatchPrompt ==
    /\ pc = "batch_prompt"
    /\ \E response \in {"y", "n", "i", "q"} :
          CASE response = "q" ->
                  /\ pc' = Interrupted
                  /\ summary' = Summary("quit", counts)
                  /\ quit' = TRUE
                  /\ UNCHANGED <<i, batch, j, bmode, counts, approved_all, calls>>
            [] response = "n" ->
                  /\ counts' = [counts EXCEPT !.skipped = @ + Len(batch)]
                  /\ batch' = <<>>
                  /\ calls' = Append(calls, Pause)
                  /\ i' = i + 1
                  /\ pc' = "loop"
                  /\ UNCHANGED <<j, bmode, summary, approved_all, quit>>
            [] OTHER ->
                  /\ bmode' = response
                  /\ approved_all' = (approved_all \/ response = "y")
                  /\ j' = 1
                  /\ pc' = "batch_run"
                  /\ UNCHANGED <<i, batch, counts, summary, quit, calls>>
    /\ UNCHANGED <<enumvars, hd, ft>>
    /\ UNCHANGED <<cfg, ledger, ledger0, wrote, remote, channels, order, current, ap,
                   okids, last, retargets, externals, pre, error, contacted,
                   cache_written, routed>>

\* every record of the batch goes through get_user_approval
BatchStep_AlwaysReview(mode) == "approve"

\* what happens to a record of the batch: after 'y' it is processed at once,
\* after 'i' it goes through get_user_approval first
BatchStep(mode) == IF mode = "y" THEN "process" ELSE "approve"

\* the loops over batch_channels after 'y' and after 'i'
BatchRun ==
    /\ pc = "batch_run"
    /\ IF j > Len(batch)
          THEN /\ batch' = <<>>
               /\ bmode' = "-"
               /\ calls' = Append(calls, Pause)
               /\ i' = i + 1
               /\ pc' = "loop"
               /\ UNCHANGED <<ap, routed>>
       ELSE /\ ap' = [rec |-> batch[j], action |-> channels[batch[j]].action]
            /\ pc' = BatchStep(bmode)
            /\ routed' = Append(routed, batch[j])
            /\ UNCHANGED <<batch, bmode, i, calls>>
    /\ UNCHANGED <<enumvars, hd, ft>>
    /\ UNCHANGED <<cfg, ledger, ledger0, wrote, remote, channels, order, current, j,
                   counts, okids, last, retargets, externals, pre, error,
                   contacted, cache_written, summary, approved_all, quit>>


\* get_user_approval stopped at a retarget prompt: 'r' with a new value, 'n', 'q'
ApproveRetarget ==
    /\ pc = "approve"
    /\ LET ch == channels[ap.rec]
           kind == ApprovalCheck(ap.action, ch.target_value, current, remote)
       IN  /\ kind # "ok"
           /\ \/ \* 'q': KeyboardInterrupt
                 /\ pc' = Interrupted
                 /\ summary' = Summary("quit", counts)
                 /\ quit' = TRUE
                 /\ UNCHANGED <<channels, i, j, counts, last, retargets>>
              \/ \* 'n': not approved, the action is skipped
                 /\ counts' = [counts EXCEPT !.skipped = @ + 1]
                 /\ last' = [rec |-> ap.rec, result |-> "declined", stale |-> "",
                             handler |-> "-"]
                 /\ Advance
                 /\ UNCHANGED <<channels, retargets, summary, quit>>
              \/ \* 'r': a new target is typed and the approval starts over with it
                 /\ retargets < MaxRetarget
                 /\ \E raw \in RetargetInputs :
                       /\ ~EntryRefused(kind, Entered(raw))
                       /\ channels' = [channels EXCEPT ![ap.rec].target_value = Entered(raw)]
                 /\ retargets' = retargets + 1
                 /\ UNCHANGED <<pc, i, j, counts, last, summary, quit>>
    /\ UNCHANGED <<enumvars, hd, ft>>
    /\ UNCHANGED <<cfg, ledger, ledger0, wrote, remote, order, current, batch, bmode,
                   ap, okids, calls, externals, pre, error, contacted, cache_written,
                   approved_all, routed>>

\* get_user_approval reached the approve prompt: 'y', 'n', 'q'
ApproveAnswer ==
    /\ pc = "approve"
    /\ ApprovalCheck(ap.action, channels[ap.rec].target_value, current, remote) = "ok"
    /\ \/ \* 'q': KeyboardInterrupt
          /\ pc' = Interrupted
          /\ summary' = Summary("quit", counts)
          /\ quit' = TRUE
          /\ UNCHANGED <<i, j, counts, last>>
       \/ \* 'n'
          /\ counts' = [counts EXCEPT !.skipped = @ + 1]
          /\ last' = [rec |-> ap.rec, result |-> "declined", stale |-> "",
                      handler |-> "-"]
          /\ Advance
          /\ UNCHANGED <<summary, quit>>
       \/ \* 'y'
          /\ pc' = "process"
          /\ UNCHANGED <<i, j, counts, last, summary, quit>>
    /\ UNCHANGED <<enumvars, hd, ft>>
    /\ UNCHANGED <<cfg, ledger, ledger0, wrote, remote, channels, order, current, batch,
                   bmode, ap, okids, calls, retargets, externals, pre, error, contacted,
                   cache_written, approved_all, routed>>

\* get_user_approval raised something other than KeyboardInterrupt: the record
\* is counted as failed and the loop goes on
ApproveError ==
    /\ pc = "approve"
    /\ counts' = [counts EXCEPT !.failed = @ + 1]
    /\ last' = [rec |-> ap.rec, result |-> "failed", stale |-> "", handler |-> "-"]
    /\ Advance
    /\ UNCHANGED <<enumvars, hd, ft>>
    /\ UNCHANGED <<cfg, ledger, ledger0, wrote, remote, channels, order, current, batch,
                   bmode, ap, okids, calls, retargets, externals, pre, error, contacted,
                   cache_written, summary, approved_all, quit, routed>>

\* process_single_channel and the caller's bookkeeping of its result
ProcessSingle ==
    /\ pc = "process"
    /\ \E fault \in Faults :
          LET ch == channels[ap.rec]
              out == process_single_channel(ch, remote, cfg.dry_run, fault)
          IN  /\ remote' = out.remote
              /\ calls' = calls \o out.calls
              /\ channels' = [channels EXCEPT ![ap.rec] = out.row]
              /\ last' = [rec |-> ap.rec, result |-> out.result, stale |-> out.stale,
                          handler |-> out.handler]
              /\ counts' = CASE out.result = "success" ->
                                  [counts EXCEPT !.successful = @ + 1]
                             [] out.result = "failed" ->
                                  [counts EXCEPT !.failed = @ + 1]
                             [] OTHER -> [counts EXCEPT !.skipped = @ + 1]
              /\ okids' = IF out.result = "success"
                             THEN Append(okids, ch.channel_id) ELSE okids
    /\ Advance
    /\ UNCHANGED <<enumvars, hd, ft>>
    /\ UNCHANGED <<cfg, ledger, ledger0, wrote, order, current, batch, bmode, ap,
                   retargets, externals, pre, error, contacted, cache_written, summary,
                   approved_all, quit, routed>>

\* main after execute_channel_actions returned: "Clear successful actions"
PostExec ==
    /\ pc = "post_exec"
    /\ IF ~cfg.dry_run /\ okids # <<>>
          THEN /\ channels' = clear_successful(cfg.tool, channels, okids)
               /\ IF cfg.tool = "curator"
                     THEN ledger' = channels' /\ wrote' = TRUE /\ pc' = "done"
                     ELSE UNCHANGED <<ledger, wrote>> /\ pc' = "refresh"
          ELSE /\ pc' = "refresh"
               /\ UNCHANGED <<channels, ledger, wrote>>
    /\ UNCHANGED <<enumvars, hd, ft>>
    /\ UNCHANGED <<cfg, ledger0, remote, order, current, i, batch, j, bmode, ap, counts,
                   okids, calls, last, retargets, externals, pre, error, contacted,
                   cache_written, summary, approved_all, quit, routed>>

\* the dry_run argument main passes to get_all_channels for the refresh: the
\* curation script passes its flag, the legacy script passes nothing (False)
RefreshDryRun(c) == c.tool = "curator" /\ c.dry_run

\* main: "Fetching current channels...", the merge and the write of the ledger
Refresh ==
    /\ pc = "refresh"
    /\ \E res \in get_all_channels(remote) :
          /\ cache_written' = (cache_written \/ SavesCache(res, RefreshDryRun(cfg)))
          /\ IF res.ok
                THEN /\ current' = res.list
                     /\ pre' = [ok |-> TRUE, rows |-> channels]
                     /\ channels' = reconcile(cfg.tool, channels, res.list)
                     /\ ledger' = channels'
                     /\ wrote' = TRUE
                     /\ error' = error
                ELSE /\ error' = "Slack API Error"
                     /\ UNCHANGED <<current, pre, channels, ledger, wrote>>
    /\ contacted' = TRUE
    /\ pc' = "done"
    /\ UNCHANGED <<enumvars, hd, ft>>
    /\ UNCHANGED <<cfg, ledger0, remote, order, i, batch, j, bmode, ap, counts, okids,
                   calls, last, retargets, externals, summary, approved_all, quit, routed>>

\* somebody else renames, archives or deletes a channel while the executor runs
ExternalChange ==
    /\ pc = "process"
    /\ externals < MaxExternal
    /\ \E id \in {channels[ap.rec].channel_id} \cap Ids :
          /\ remote[id].exists
          /\ \/ /\ remote[id].name # <<"z">>
                /\ remote' = [remote EXCEPT ![id].name = <<"z">>]
             \/ /\ ~remote[id].is_archived
                /\ remote' = [remote EXCEPT ![id].is_archived = TRUE]
             \/ remote' = [remote EXCEPT ![id].exists = FALSE]
    /\ externals' = externals + 1
    /\ UNCHANGED <<enumvars, hd, ft>>
    /\ UNCHANGED <<cfg, ledger, ledger0, wrote, channels, order, current, pc, i, batch,
                   j, bmode, ap, counts, okids, calls, last, retargets, pre, error,
                   contacted, cache_written, summary, approved_all, quit, routed>>

Next ==
    \/ ReadLedger
    \/ MainDispatch
    \/ ExecStart
    \/ ExecLoop
    \/ BatchPrompt
    \/ BatchRun
    \/ ApproveRetarget
    \/ ApproveAnswer
    \/ ApproveError
    \/ ProcessSingle
    \/ PostExec
    \/ Refresh
    \/ ExternalChange

Spec == Init /\ [][Next]_vars

-----------------------------------------------------------------------------
(* get_all_channels step by step: paging under rate limits, then activity
   from the cache or from the history API, then the cache write.  The
   executions below are successive runs of the enumeration against one
   workspace, with time passing and messages arriving between the runs. *)

\* bounds: runs, clock ticks, entities per page (limit=200 in the code), and
\* rate-limited responses per page
MaxRuns == 2
MaxTicks == 2
PageLimit == 1
MaxHits == 4

\* "if rate_limit_count > 3: ... raise"
RateLimitBound == 3

mainvars == <<cfg, ledger, ledger0, wrote, remote, channels, order, current, pc, i,
              batch, j, bmode, ap, counts, okids, calls, last, retargets, externals,
              pre, error, contacted, cache_written, summary, approved_all, quit,
              routed>>

Max(a, b) == IF a >= b THEN a ELSE b

\* no enumeration is between its first request and its return
Idle == en.pc \in {"idle", "done", "failed"}

\* cache files a first run may find: none, a damaged one, one without its
\* timestamp, an expired one, one written one tick ago
FilesAtStart ==
    LET data == [id \in {"C1"} |->
                    [ts |-> StartClock - 2 * TickStep,
                     obtained |-> StartClock - TickStep]]
        old == [id \in {"C1"} |->
                    [ts |-> StartClock - 4 * TickStep,
                     obtained |-> StartClock - 3 * TickStep]]
    IN  { NoFile, UnreadableFile,
          FileOf(Dict(FALSE, 0, TRUE, data)),
          FileOf(Dict(TRUE, StartClock - 3 * TickStep, TRUE, old)),
          FileOf(Dict(TRUE, StartClock - TickStep, TRUE, data)) }

\* main() not running
MainIdle ==
    /\ cfg = [tool |-> "curator", dry_run |-> FALSE, batch_size |-> 0]
    /\ ledger = <<>>
    /\ ledger0 = <<>>
    /\ wrote = FALSE
    /\ remote = [id \in Ids |-> CASE id = "C1" -> Chan(TRUE, <<"a">>, FALSE)
                             [] id = "C2" -> Chan(TRUE, <<"b">>, FALSE)
                             [] OTHER -> NoInfo]
    /\ channels = <<>>
    /\ order = <<>>
    /\ current = <<>>
    /\ pc = "read"
    /\ i = 0
    /\ batch = <<>>
    /\ j = 0
    /\ bmode = "-"
    /\ ap = NoAp
    /\ counts = [successful |-> 0, failed |-> 0, skipped |-> 0]
    /\ okids = <<>>
    /\ calls = <<>>
    /\ last = NoLast
    /\ retargets = 0
    /\ externals = 0
    /\ pre = [ok |-> FALSE, rows |-> <<>>]
    /\ error = ""
    /\ contacted = FALSE
    /\ cache_written = FALSE
    /\ summary = NoSummary
    /\ approved_all = FALSE
    /\ quit = FALSE
    /\ routed = <<>>

InitEnum ==
    /\ MainIdle
    /\ now = StartClock
    /\ activity = [id \in Ids |-> IF id = "C1" THEN StartClock - 2 * TickStep ELSE 0]
    /\ cache_file \in FilesAtStart
    /\ en = NoEnum
    /\ hd = NoHandlerCall
    /\ ft = NoFetch

\* time passes between two runs
Tick ==
    /\ Idle
    /\ now < StartClock + MaxTicks * TickStep
    /\ now' = now + TickStep
    /\ UNCHANGED <<activity, cache_file, en>>
    /\ UNCHANGED <<mainvars, hd, ft>>

\* somebody posts a message in a channel
Message ==
    /\ Idle
    /\ \E id \in Ids :
          /\ remote[id].exists /\ activity[id] # now
          /\ activity' = [activity EXCEPT ![id] = now]
    /\ UNCHANGED <<now, cache_file, en>>
    /\ UNCHANGED <<mainvars, hd, ft>>

\* get_all_channels(force_refresh, dry_run) up to the paging loop; every caller
\* leaves use_cache at True
EnumStart ==
    /\ Idle
    /\ en.runs < MaxRuns
    /\ \E force_refresh \in BOOLEAN, dry_run \in BOOLEAN :
          en' = [pc |-> "paging", force_refresh |-> force_refresh,
                 dry_run |-> dry_run,
                 cache |-> IF ~force_refresh THEN load_cache(cache_file, now)
                           ELSE EmptyDict,
                 file0 |-> cache_file, channels |-> <<>>, cursor |-> 1,
                 page |-> 1, rate_limit_count |-> 0, hits |-> 0, worst |-> 0,
                 error |-> "", runs |-> en.runs + 1, started |-> now,
                 failed |-> {}, save |-> "-"]
    /\ UNCHANGED <<now, activity, cache_file>>
    /\ UNCHANGED <<mainvars, hd, ft>>

\* a page arrives: its channels are appended; the loop ends with the last page
PageOk ==
    /\ en.pc = "paging"
    /\ LET live == conversations_list(remote, TRUE)
           upto == IF en.cursor + PageLimit - 1 <= Len(live)
                   THEN en.cursor + PageLimit - 1 ELSE Len(live)
           new_channels == [k \in 1..(upto - en.cursor + 1) |->
                              [id |-> live[en.cursor + k - 1].id,
                               name |-> live[en.cursor + k - 1].name,
                               latest |-> NoLatest]]
           more == upto < Len(live)
       IN  en' = [en EXCEPT !.channels = @ \o new_channels,
                            !.cursor = IF more THEN upto + 1 ELSE 0,
                            !.page = IF more THEN @ + 1 ELSE @,
                            !.hits = IF more THEN 0 ELSE @,
                            !.pc = IF more THEN "paging" ELSE "activity"]
    /\ UNCHANGED <<now, activity, cache_file>>
    /\ UNCHANGED <<mainvars, hd, ft>>

\* the request for the page is answered "rate_limited": the page is asked for
\* again, unless this was one answer too many
PageRateLimited ==
    /\ en.pc = "paging"
    /\ en.hits < MaxHits
    /\ en' = [en EXCEPT !.rate_limit_count = @ + 1,
                        !.hits = @ + 1,
                        !.worst = Max(@, en.hits + 1),
                        !.pc = IF en.rate_limit_count + 1 > RateLimitBound
                               THEN "failed" ELSE "paging",
                        !.error = IF en.rate_limit_count + 1 > RateLimitBound
                                  THEN "rate_limited" ELSE ""]
    /\ UNCHANGED <<now, activity, cache_file>>
    /\ UNCHANGED <<mainvars, hd, ft>>

\* the request fails for another reason: ValueError for missing_scope and
\* invalid_auth, the SlackApiError itself otherwise
PageError ==
    /\ en.pc = "paging"
    /\ \E code \in {"missing_scope", "other"} :
          en' = [en EXCEPT !.pc = "failed", !.error = code]
    /\ UNCHANGED <<now, activity, cache_file>>
    /\ UNCHANGED <<mainvars, hd, ft>>

\* what a call of save_cache may leave: the new file, or, when it caught an
\* exception, the file as it was (the open failed) or a file cut short (the
\* dump failed)
SaveOutcomes(chs, file, t) ==
    { [save |-> "written", file |-> save_cache(chs, t)],
      [save |-> "failed", file |-> file],
      [save |-> "failed", file |-> UnreadableFile] }

\* a failed save ends the enumeration with an error
AfterSave_Propagates(save) == IF save = "failed" THEN "failed" ELSE "done"

\* save_cache returns None whatever happened ("except Exception ... print"),
\* and get_all_channels returns the channels
AfterSave(save) == "done"

\* after the paging: cached activity, history fetches, cache write, return
FetchActivity ==
    /\ en.pc = "activity"
    /\ \E failing \in SUBSET channels_to_update(en.channels, en.cache,
                                                 en.force_refresh) :
          LET chs == WithActivity(en.channels, en.cache, en.force_refresh,
                                  failing, activity, now)
          IN  \E out \in IF en.dry_run THEN {[save |-> "skipped", file |-> cache_file]}
                         ELSE SaveOutcomes(chs, cache_file, now) :
                  /\ en' = [en EXCEPT !.channels = chs, !.pc = AfterSave(out.save),
                                      !.failed = failing, !.save = out.save]
                  /\ cache_file' = out.file
    /\ UNCHANGED <<now, activity>>
    /\ UNCHANGED <<mainvars, hd, ft>>

NextEnum ==
    \/ Tick
    \/ Message
    \/ EnumStart
    \/ PageOk
    \/ PageRateLimited
    \/ PageError
    \/ FetchActivity

SpecEnum == InitEnum /\ [][NextEnum]_vars

-----------------------------------------------------------------------------
(* ChannelActionHandler.archive_channel on its own: one call, for every
   state of the source channel and of the redirect target and every failure
   of a remote call *)

\* the source C1 is live, archived, the general channel or gone; b is live,
\* archived or gone
HandlerRemotes ==
    { [id \in Ids |-> CASE id = "C1" -> c1 [] id = "C2" -> c2
                        [] OTHER -> Chan(TRUE, <<"c">>, FALSE)] :
        c1 \in { Chan(TRUE, <<"a">>, FALSE), Chan(TRUE, <<"a">>, TRUE),
                 [Chan(TRUE, <<"a">>, FALSE) EXCEPT !.is_general = TRUE],
                 NoInfo },
        c2 \in { Chan(TRUE, <<"b">>, FALSE), Chan(TRUE, <<"b">>, TRUE), NoInfo } }

\* no redirect, b, #b, a name nobody bears
HandlerTargets == { <<>>, <<"b">>, <<"#", "b">>, <<"z">> }

InitArchive ==
    /\ MainIdle
    /\ now = StartClock
    /\ activity = [id \in Ids |-> 0]
    /\ cache_file = NoFile
    /\ en = NoEnum
    /\ hd \in { [pc |-> "call", r |-> r, id |-> "C1", target_channel |-> t,
                 fault |-> f, out |-> NoOutcome] :
                  r \in HandlerRemotes, t \in HandlerTargets, f \in Faults }
    /\ ft = NoFetch

\* handler.archive_channel(channel_id, channel_name, target_channel)
ArchiveCall ==
    /\ hd.pc = "call"
    /\ hd' = [hd EXCEPT !.pc = "returned",
                        !.out = archive_channel(hd.r, hd.id, hd.target_channel,
                                                hd.fault)]
    /\ UNCHANGED <<mainvars, enumvars, ft>>

NextArchive == ArchiveCall

SpecArchive == InitArchive /\ [][NextArchive]_vars

-----------------------------------------------------------------------------
(* get_all_channels request by request: the page requests with their
   rate-limit retries, then the history fetches, queued in batches and run
   by asyncio.gather.  The channels are counted, not named: pages of
   per_page channels each, of which cached have their activity in the cache.
   The client is the synchronous WebClient, so a fetch that gather has
   started either runs to its end or is asleep after a rate-limited answer. *)

\* bound: the pages the workspace has
MaxPages == 2

\* channels per page (limit=200 in the code)
PageSizes == {1, 5, 6}

\* "if len(tasks) >= 10:  # Process in batches of 10"
FetchBatch == 10

\* fetch_channel_history: max_retries = 3
max_retries == 3

\* rate_limit_count left as it is
CountRateLimit_Dropped(c) == c

\* rate_limit_count += 1
CountRateLimit(c) == c + 1

\* the batch is never found full inside the loop
BatchFull_Never(n) == FALSE

\* len(tasks) >= 10
BatchFull(n) == n >= FetchBatch

\* the fetches gather has started and that have not returned: those that have
\* not made their first request yet and those asleep after a rate-limited
\* answer, by retry_count
InFlight(f) == f.started + f.s1 + f.s2 + f.s3

InitFetch ==
    /\ MainIdle
    /\ now = StartClock
    /\ activity = [id \in Ids |-> 0]
    /\ cache_file = NoFile
    /\ en = NoEnum
    /\ hd = NoHandlerCall
    /\ ft \in { [NoFetch EXCEPT !.pc = "paging", !.pages = p, !.per_page = n,
                                 !.cached = c] :
                  p \in 1..MaxPages, n \in PageSizes, c \in 0..1 }

\* a page arrives: after the last one the loop is left and the channels
\* without cached activity are the ones to fetch
FetchPage ==
    /\ ft.pc = "paging"
    /\ LET n == ft.fetched + ft.per_page
       IN  ft' = IF ft.page < ft.pages
                    THEN [ft EXCEPT !.fetched = n, !.page = @ + 1]
                    ELSE [ft EXCEPT !.fetched = n, !.todo = n - ft.cached,
                                    !.pc = "queue"]
    /\ UNCHANGED <<mainvars, enumvars, hd>>

\* the page request is answered "rate_limited": one time too many ends the
\* enumeration, otherwise it sleeps for Retry-After seconds
FetchPageRateLimited ==
    /\ ft.pc = "paging"
    /\ LET c == CountRateLimit(ft.rate_limit_count)
       IN  ft' = [ft EXCEPT !.rate_limit_count = c,
                            !.pc = IF c > RateLimitBound THEN "failed" ELSE "backoff"]
    /\ UNCHANGED <<mainvars, enumvars, hd>>

\* the sleep is over: "continue", the page is asked for again
FetchPageRetry ==
    /\ ft.pc = "backoff"
    /\ ft' = [ft EXCEPT !.pc = "paging"]
    /\ UNCHANGED <<mainvars, enumvars, hd>>

\* the page request fails for another reason: the error is raised
FetchPageError ==
    /\ ft.pc = "paging"
    /\ ft' = [ft EXCEPT !.pc = "failed"]
    /\ UNCHANGED <<mainvars, enumvars, hd>>

\* one pass of "for i, channel in enumerate(channels_to_update, 1)": the
\* coroutine is appended to tasks, and a full batch is handed to gather;
\* after the loop "if tasks: await asyncio.gather(*tasks)", then the return
FetchQueue ==
    /\ ft.pc = "queue"
    /\ ft' = IF ft.k < ft.todo
                THEN IF BatchFull(ft.tasks + 1)
                        THEN [ft EXCEPT !.k = @ + 1, !.tasks = 0,
                                        !.started = ft.tasks + 1,
                                        !.gathers = @ + 1, !.pc = "gather"]
                        ELSE [ft EXCEPT !.k = @ + 1, !.tasks = @ + 1]
             ELSE IF ft.tasks > 0
                THEN [ft EXCEPT !.tasks = 0, !.started = ft.tasks,
                                !.gathers = @ + 1, !.pc = "gather"]
             ELSE [ft EXCEPT !.pc = "returned"]
    /\ UNCHANGED <<mainvars, enumvars, hd>>

\* a started fetch makes its first request: it returns (with or without a
\* message, or after an error it caught), or it is rate-limited and sleeps
FetchTaskRun ==
    /\ ft.pc = "gather"
    /\ ft.started > 0
    /\ \/ ft' = [ft EXCEPT !.started = @ - 1]
       \/ ft' = [ft EXCEPT !.started = @ - 1, !.s1 = @ + 1]
    /\ UNCHANGED <<mainvars, enumvars, hd>>

\* a sleeping fetch wakes with retry_count = r: "while retry_count <
\* max_retries" lets it ask again, or it gives up
FetchTaskWake ==
    /\ ft.pc = "gather"
    /\ \/ /\ ft.s1 > 0
          /\ \/ ft' = [ft EXCEPT !.s1 = @ - 1]
             \/ ft' = [ft EXCEPT !.s1 = @ - 1, !.s2 = @ + 1]
       \/ /\ ft.s2 > 0
          /\ IF 2 < max_retries
                THEN \/ ft' = [ft EXCEPT !.s2 = @ - 1]
                     \/ ft' = [ft EXCEPT !.s2 = @ - 1, !.s3 = @ + 1]
                ELSE ft' = [ft EXCEPT !.s2 = @ - 1]
       \/ /\ ft.s3 > 0
          /\ ft' = [ft EXCEPT !.s3 = @ - 1, !.gave_up = TRUE]
    /\ UNCHANGED <<mainvars, enumvars, hd>>

\* every fetch of the batch has returned: gather returns, "tasks = []", the
\* loop goes on
FetchGatherDone ==
    /\ ft.pc = "gather"
    /\ InFlight(ft) = 0
    /\ ft' = [ft EXCEPT !.pc = "queue"]
    /\ UNCHANGED <<mainvars, enumvars, hd>>

NextFetch ==
    \/ FetchPage
    \/ FetchPageRateLimited
    \/ FetchPageRetry
    \/ FetchPageError
    \/ FetchQueue
    \/ FetchTaskRun
    \/ FetchTaskWake
    \/ FetchGatherDone

SpecFetch == InitFetch /\ [][NextFetch]_vars

\* the program goes on running and the workspace answers every request
FairFetch == SpecFetch /\ WF_vars(NextFetch)

-----------------------------------------------------------------------------
(* Definitions shared by the properties *)

MutatingOps == {"archive", "rename", "join", "post"}

IdsOf(rows) == {rows[k].channel_id : k \in 1..Len(rows)}
LiveIds(live) == {live[k].id : k \in 1..Len(live)}
OkSet == {okids[k] : k \in 1..Len(okids)}

\* the rows of the ledger that the merge kept, in their order before the merge
Survivors == SelectSeq(pre.rows, LAMBDA ch : ch.channel_id \in LiveIds(current))

\* the last live entry with the id: the one whose values the merge leaves
LastWithId(live, id) ==
    live[CHOOSE k \in 1..Len(live) :
            /\ live[k].id = id
            /\ \A m \in (k + 1)..Len(live) : live[m].id # id]

InExecutor == pc \in {"loop", "batch_prompt", "batch_run", "approve", "process", "post_exec"}

-----------------------------------------------------------------------------
(* C1: in a non-dry-run execution, in every approval mode, every remote     *)
(* mutating call (archive, rename, join, post) is issued for a record only  *)
(* after the live state fetched right before showed the entity existing,    *)
(* not archived and named as the ledger row; a record whose entity is gone, *)
(* archived or renamed is counted as skipped, no call is issued for it, and *)
(* the loop goes on to the next record.                                     *)

C1_CallsVerified ==
    \A k \in 1..Len(calls) :
        calls[k].op \in MutatingOps =>
            /\ calls[k].seen.exists
            /\ ~calls[k].seen.is_archived
            /\ calls[k].seen.name = calls[k].recorded

C1_StaleStep ==
    (/\ pc = "process"
     /\ pc' # "process"
     /\ ~cfg.dry_run
     /\ LET info == get_channel_info(remote, channels[ap.rec].channel_id, "none")
        IN  ~info.exists \/ info.is_archived \/ info.name # channels[ap.rec].name)
    => /\ counts'.skipped = counts.skipped + 1
       /\ counts'.successful = counts.successful
       /\ calls' = calls
       /\ okids' = okids
       /\ remote' = remote
       /\ IF bmode = "-" THEN pc' = "loop" /\ i' = i + 1
                         ELSE pc' = "batch_run" /\ j' = j + 1

C1_ReverifiedBeforeMutation == [](C1_CallsVerified) /\ [][C1_StaleStep]_vars

\* in an approved batch the first record was skipped as stale (no call) and
\* the second one was then archived
C1_Witness ==
    /\ ~cfg.dry_run
    /\ cfg.batch_size = DefaultBatch
    /\ bmode = "y"
    /\ j = 3
    /\ externals = 1
    /\ counts.skipped = 1
    /\ counts.successful = 1
    /\ Len(calls) = 1
    /\ calls[1].op = "archive"
    /\ last.result = "success"

-----------------------------------------------------------------------------------------------------------------------------------------------------
(* C2: after a non-dry-run execution and the ledger update that follows it, *)
(* no row of the written ledger whose id is in the returned success list    *)
(* keeps a non-keep action or a target value; a row that validation read as *)
(* an archive is removed, any other is reset to keep; the row of a          *)
(* successful rename carries the name the rename call asked for.            *)

ClearedIn(rows) ==
    /\ \A k \in 1..Len(rows) :
          rows[k].channel_id \in OkSet =>
              rows[k].action = KEEP /\ rows[k].target_value = <<>>
    /\ \A k \in 1..Len(ledger0) :
          (ledger0[k].channel_id \in OkSet /\ ActionLower(ledger0[k].action) = ARCHIVE)
              => ledger0[k].channel_id \notin IdsOf(rows)
    /\ \A c \in 1..Len(calls) :
          (calls[c].op = "rename" /\ calls[c].id \in OkSet) =>
              \A k \in 1..Len(rows) :
                  rows[k].channel_id = calls[c].id => rows[k].name = calls[c].arg

C2_SuccessfulActionsCleared ==
    (pc = "done" /\ wrote /\ ~cfg.dry_run /\ okids # <<>>) => ClearedIn(ledger)

\* a rename to "x" succeeded and the written ledger has the row as keep, named "x"
C2_Witness ==
    /\ pc = "done"
    /\ ~cfg.dry_run
    /\ wrote
    /\ \E c \in 1..Len(calls) : calls[c].op = "rename" /\ calls[c].id \in OkSet
    /\ \E k \in 1..Len(ledger) :
          /\ ledger[k].channel_id \in OkSet
          /\ ledger[k].name = <<"x">>
          /\ ledger[k].action = KEEP
          /\ ledger[k].target_value = <<>>

-----
(* C3: when the run is over, every row of the starting ledger whose id is   *)
(* not in the returned success list (failed, skipped, also after retarget   *)
(* entries, or never reached) has in the persisted ledger the action and    *)
(* the target value it had before the run.                                  *)

C3_UnsuccessfulRowsKeepIntent ==
    pc = "done" =>
        \A k \in 1..Len(ledger0) :
            ledger0[k].channel_id \notin OkSet =>
                \A m \in 1..Len(ledger) :
                    ledger[m].channel_id = ledger0[k].channel_id =>
                        /\ ledger[m].action = ledger0[k].action
                        /\ ledger[m].target_value = ledger0[k].target_value

-----------------------------------------------------------------------------
(* C4: reconciliation is idempotent: merging the merged ledger with the     *)
(* same live list again changes nothing (same rows, values and order).      *)

C4_ReconcileIdempotent ==
    pre.ok => reconcile(cfg.tool, channels, current) = channels

\* a merge that dropped a row, refreshed a row and appended a new one
C4_Witness ==
    /\ pre.ok
    /\ \E k \in 1..Len(pre.rows) : pre.rows[k].channel_id \notin LiveIds(current)
    /\ \E k \in 1..Len(Survivors) : channels[k] # Survivors[k]
    /\ Len(channels) > Len(Survivors)

-----------------------------------------------------------------------------
(* C5: in the merge of the curation script, a row that validation accepted  *)
(* as a rename (the action text lower-cased is "rename") and that matches a *)
(* live entity keeps its name; a matching row with any other action gets    *)
(* the live entity's name.                                                  *)

LiveNameOf(id) == LastWithId(current, id).name

C5_PendingRenameKeepsName ==
    (pre.ok /\ cfg.tool = "curator") =>
        \A k \in 1..Len(Survivors) :
            IF ActionLower(Survivors[k].action) = RENAME
            THEN channels[k].name = Survivors[k].name
            ELSE channels[k].name = LiveNameOf(Survivors[k].channel_id)

-----------------------------------------------------------------------------
(* C6: the merge never changes the action or the target value of a ledger   *)
(* row that stays in the ledger: the rows kept are the rows of before, in   *)
(* order, each with the id, action and target value it had.                 *)

C6_ReconcileKeepsIntent ==
    pre.ok =>
        /\ Len(channels) >= Len(Survivors)
        /\ \A k \in 1..Len(Survivors) :
              /\ channels[k].channel_id = Survivors[k].channel_id
              /\ channels[k].action = Survivors[k].action
              /\ channels[k].target_value = Survivors[k].target_value

\* the curation script merged a row with a pending archive and a redirect
\* target: its description was refreshed, its action and target stayed
C6_Witness ==
    /\ pre.ok
    /\ cfg.tool = "curator"
    /\ \E k \in 1..Len(Survivors) :
          /\ Survivors[k].action = ARCHIVE
          /\ Survivors[k].target_value # <<>>
          /\ channels[k].description # Survivors[k].description
          /\ channels[k].action = ARCHIVE
          /\ channels[k].target_value = Survivors[k].target_value

-----------------------------------------------------------------------------
(* C7: after the merge the ledger holds no row whose id is absent from the  *)
(* live list; a row whose entity is no longer live (pending archive or      *)
(* not) is dropped, the merge still completes and writes the ledger, and    *)
(* every other row of before is still there, in the same relative order.    *)

C7_GoneRowsDropped ==
    pre.ok =>
        /\ IdsOf(channels) \subseteq LiveIds(current)
        /\ wrote /\ ledger = channels
        /\ Len(channels) >= Len(Survivors)
        /\ \A k \in 1..Len(Survivors) :
              channels[k].channel_id = Survivors[k].channel_id

\* a row with a pending archive whose entity was deleted meanwhile was
\* dropped by the merge while another row with a pending action stayed
C7_Witness ==
    /\ pre.ok
    /\ \E k \in 1..Len(pre.rows) :
          /\ pre.rows[k].action = ARCHIVE
          /\ pre.rows[k].channel_id \notin LiveIds(current)
          /\ pre.rows[k].channel_id \notin IdsOf(channels)
    /\ \E k \in 1..Len(Survivors) :
          /\ Survivors[k].action \in {ARCHIVE, RENAME}
          /\ channels[k].channel_id = Survivors[k].channel_id

-----------------------------------------------------------------------------
(* C8: every ledger a run writes, by the merge or by the post-execution     *)
(* update, has no two rows with the same id, when the ledger read had none, *)
(* whatever the enumeration returned (an entity repeated on a following     *)
(* page included).                                                          *)

UniqueIds(rows) ==
    \A k, m \in 1..Len(rows) : rows[k].channel_id = rows[m].channel_id => k = m

C8_NoDuplicateIds ==
    (wrote /\ UniqueIds(ledger0)) => UniqueIds(ledger)

-----------------------------------------------------------------------------
(* C9: for each live entity without a row in the ledger that was merged,    *)
(* the merge appends exactly one row, with action new and an empty target,  *)
(* after all rows of before and in the order of the enumeration; the rows   *)
(* of before keep their relative order.                                     *)

\* position of the first live entry with the id
FirstLivePos(live, id) ==
    CHOOSE k \in 1..Len(live) :
        /\ live[k].id = id
        /\ \A m \in 1..(k - 1) : live[m].id # id

C9_NewRowsAppendedOnce ==
    pre.ok =>
        LET missing == LiveIds(current) \ IdsOf(pre.rows)
            n == Len(Survivors)
            added == (n + 1)..Len(channels)
        IN  /\ Len(channels) >= n
            /\ \A k \in 1..n : channels[k].channel_id = Survivors[k].channel_id
            /\ \A id \in missing :
                  Cardinality({k \in added : channels[k].channel_id = id}) = 1
            /\ \A k \in added :
                  /\ channels[k].channel_id \in missing
                  /\ channels[k].action = NEW_ACTION
                  /\ channels[k].target_value = <<>>
            /\ \A k, m \in added :
                  k < m => FirstLivePos(current, channels[k].channel_id)
                              <= FirstLivePos(current, channels[m].channel_id)

-----------------------------------------------------------------------------
(* C10: in every approval mode, every rename call the executor issues has a *)
(* target that is not empty, is at most 80 characters long, consists of     *)
(* lowercase letters, digits, hyphen and underscore only, and is not the    *)
(* name of an entity of the live snapshot the executor took.                *)

C10_RenameTargetsValid ==
    InExecutor =>
        \A k \in 1..Len(calls) :
            calls[k].op = "rename" =>
                /\ calls[k].arg # <<>>
                /\ Len(calls[k].arg) <= MaxNameLen
                /\ AllNameChars(calls[k].arg)
                /\ ~HasName(current, calls[k].arg)

-----------------------------------------------------------------------------
\* a record that asks for the archival of a channel flagged as shared
SharedArchive(ch) == ch.action = ARCHIVE /\ ch.is_shared = "true"

\* C11: when the ledger the curation script reads holds a record with action
\* archive and is_shared = true, the read ends the run with a validation error
\* (that of the shared record when no earlier record is rejected) and the run
\* sends no request to the workspace: no enumeration, no lookup, no archive.
C11_SharedArchiveRejected ==
    (cfg.tool = "curator" /\ \E k \in 1..Len(ledger0) : SharedArchive(ledger0[k]))
    => /\ ~contacted
       /\ calls = <<>>
       /\ ~wrote
       /\ pc \in {"read", "done"}
       /\ pc = "done" => error \in {"Cannot archive shared channel", "Invalid action",
                                     "Target value must be empty",
                                     "Target value is required"}
       /\ (pc = "done" /\ SharedArchive(ledger0[1]))
             => error = "Cannot archive shared channel"

C11_Witness ==
    /\ cfg.tool = "curator"
    /\ Len(ledger0) = 2
    /\ SharedArchive(ledger0[2])
    /\ ledger0[1].action = RENAME
    /\ pc = "done"
    /\ error = "Cannot archive shared channel"
    /\ ~contacted

-----------------------------------------------------------------------------
\* the errors with which the read rejects a row
ValidationErrors == {"Invalid action", "Cannot archive shared channel",
                     "Target value must be empty", "Target value is required"}

\* the ledger of a run of the curation script whose read accepted every row:
\* what was read until the run writes, what was written afterwards
AcceptedLedger == cfg.tool = "curator" /\ pc # "read" /\ error \notin ValidationErrors

\* the action of a record as the reader takes it
ReadAction(ch) == IF ActionLower(ch.action) = "" THEN KEEP ELSE ActionLower(ch.action)

\* C12 as stated: in every ledger accepted at the read or written by the run,
\* a record's action is rename exactly when its target_value is non-empty, and
\* keep or new exactly when its target_value is empty.
C12_TargetIffAction ==
    AcceptedLedger =>
        \A k \in 1..Len(ledger) :
            /\ ReadAction(ledger[k]) = RENAME <=> ledger[k].target_value # <<>>
            /\ ReadAction(ledger[k]) \in {KEEP, NEW_ACTION} <=> ledger[k].target_value = <<>>

\* C12 amended: in every ledger accepted at the read or written by the run of
\* the curation script, a rename record has a non-empty target_value and a keep
\* or new record has an empty one (an archive record may have either).
C12_TargetMatchesAction ==
    AcceptedLedger =>
        \A k \in 1..Len(ledger) :
            /\ ReadAction(ledger[k]) = RENAME => ledger[k].target_value # <<>>
            /\ ReadAction(ledger[k]) \in {KEEP, NEW_ACTION} => ledger[k].target_value = <<>>

C12_Witness ==
    /\ AcceptedLedger
    /\ wrote
    /\ \E k \in 1..Len(ledger) :
          ReadAction(ledger[k]) = RENAME /\ ledger[k].target_value # <<>>
    /\ \E k \in 1..Len(ledger) :
          /\ ledger[k].action = KEEP /\ ledger[k].target_value = <<>>
          /\ ledger0[k].action = RENAME

-----------------------------------------------------------------------------
\* C13: when the read accepts the ledger, the action written in every record
\* is one of the recognized values as written: a record with an empty, a
\* differently-cased or an unknown action makes the read fail, none is taken
\* for a default action.
C13_UnrecognizedActionRejected ==
    (pc # "read" /\ error \notin ValidationErrors)
    => \A k \in 1..Len(ledger0) : ledger0[k].action \in ChannelActionValues

\* the curation script went on with a record whose action is empty
C13_Witness ==
    /\ cfg.tool = "curator"
    /\ pc = "done"
    /\ wrote
    /\ Len(ledger0) = 1
    /\ ledger0[1].action = ""
    /\ error = ""

-----------------------------------------------------------------------------
\* ord lists every index of idx once
IsPermutation(ord, idx) ==
    /\ Len(ord) = Len(idx)
    /\ {ord[k] : k \in 1..Len(ord)} = {idx[k] : k \in 1..Len(idx)}

\* no archive before a rename, and records with the same action in input order
RenamesFirst(rows, ord, Act(_)) ==
    \A a, b \in 1..Len(ord) :
        a < b => /\ ~(Act(rows[ord[a]]) = ARCHIVE /\ Act(rows[ord[b]]) = RENAME)
                 /\ Act(rows[ord[a]]) = Act(rows[ord[b]]) => ord[a] < ord[b]

LoweredAction(ch) == ActionLower(ch.action)
WrittenAction(ch) == ch.action

\* the position of record k in the sorted order
PosIn(ord, k) == CHOOSE n \in 1..Len(ord) : ord[n] = k

\* C14: the order the executor works in holds every pending record once, no
\* archive record before a rename record, records with the same action in the
\* order of the input; the records are handed to approval and execution in
\* that order, so never an archive before a rename. The sort of the older
\* channel_renamer tool orders the records of the file the same way.
C14_RenamesBeforeArchives ==
    /\ pc \in {"loop", "batch_prompt", "batch_run", "approve", "process", "post_exec"}
         => /\ IsPermutation(order, channels_to_process(cfg.tool, ledger0))
            /\ RenamesFirst(ledger0, order, LoweredAction)
    /\ \A a, b \in 1..Len(routed) :
          a < b => /\ PosIn(order, routed[a]) < PosIn(order, routed[b])
                   /\ ~(/\ LoweredAction(ledger0[routed[a]]) = ARCHIVE
                         /\ LoweredAction(ledger0[routed[b]]) = RENAME)
    /\ IsPermutation(renamer_sorted(ledger0), [k \in 1..Len(ledger0) |-> k])
    /\ RenamesFirst(ledger0, renamer_sorted(ledger0), WrittenAction)

\* the archive comes first in the ledger and is handed over after the rename
C14_Witness ==
    /\ Len(ledger0) = 2
    /\ ledger0[1].action = ARCHIVE
    /\ ledger0[2].action = RENAME
    /\ order = <<2, 1>>
    /\ routed = <<2, 1>>
    /\ renamer_sorted(ledger0) = <<2, 1>>

-----------------------------------------------------------------------------
\* C15: in the step in which the operator enters 'q' (at the batch prompt, at
\* a retarget prompt, at the approve prompt, alone or inside a reviewed batch)
\* and in every later step of the run: no prompt is shown and no record is
\* processed, no call is added, the workspace stays as the earlier actions left
\* it, the ids of the successful records stay those collected before the 'q',
\* and the summary printed shows the counts reached before the 'q'.
C15_QuitIsHardStop ==
    [][quit' => /\ pc' \in {"post_exec", "refresh", "done"}
                /\ calls' = calls
                /\ remote' = remote
                /\ okids' = okids
                /\ counts' = counts
                /\ summary' = Summary("quit", counts)
                /\ Len(okids') = summary'.successful]_vars

\* 'q' at the second record after the first one was carried out
C15_Witness ==
    /\ quit
    /\ pc = "done"
    /\ ~cfg.dry_run
    /\ Len(order) = 2
    /\ Len(okids) = 1
    /\ summary = Summary("quit", [successful |-> 1, failed |-> 0, skipped |-> 0])
    /\ \E k \in 1..Len(calls) : calls[k].op \in MutatingOps
    /\ \E id \in Ids : remote[id] \notin {r[id] : r \in RemoteInits}

-----------------------------------------------------------------------------
\* a record the loop counts: one it refuses for a missing id or name, or one
\* whose action is neither empty nor keep
Eligible(ch) ==
    \/ ch.channel_id = "" \/ ch.name = <<>>
    \/ LoweredAction(ch) \notin {"", KEEP}

EligibleIn(rows, ord) == {n \in 1..Len(ord) : Eligible(rows[ord[n]])}

\* C16: when the executor gets through its loop without a quit, whatever
\* failed, was skipped or raised on the way, every record of the sorted order
\* other than the keep and empty-action ones has ended in exactly one of
\* successful, failed or skipped: the three counts of the summary add up to
\* the number of those records.
C16_EveryRecordCounted ==
    summary.how = "completed"
    => summary.successful + summary.failed + summary.skipped
          = Cardinality(EligibleIn(ledger0, order))

\* a batch that was filled and never presented: the loop ended on a record
\* with nothing to do
C16_Witness ==
    /\ summary.how = "completed"
    /\ batch # <<>>
    /\ routed = <<>>
    /\ summary.successful + summary.failed + summary.skipped = 0
    /\ Cardinality(EligibleIn(ledger0, order)) = 1

-----------------------------------------------------------------------------
\* C17 as stated: once the operator has answered 'y' to a batch prompt, the
\* run shows no further prompt, neither a batch prompt nor an individual one.
C17_NoPromptAfterApproveAll ==
    approved_all => pc \notin {"batch_prompt", "approve"}

\* C17 amended: once the operator has answered 'y' to a batch prompt, no
\* prompt is shown for the records of that batch: until the batch is done the
\* executor is either picking its next record or processing one, and when the
\* batch is done every record of it has been handed to execution, in order.
C17_NoPromptWithinApprovedBatch ==
    /\ bmode = "y" => /\ pc \in {"batch_run", "process"}
                      /\ approved_all
                      /\ pc = "process" => ap.rec = batch[j]
    /\ (bmode = "y" /\ pc = "batch_run")
          => /\ Len(routed) >= j - 1
             /\ SubSeq(routed, Len(routed) - (j - 1) + 1, Len(routed))
                    = SubSeq(batch, 1, j - 1)

\* both records of an approved batch have been processed without a prompt
C17_Witness ==
    /\ bmode = "y"
    /\ pc = "batch_run"
    /\ Len(batch) = 2
    /\ j = 3
    /\ routed = batch
    /\ counts.successful + counts.failed + counts.skipped = 2

-----------------------------------------------------------------------------
\* the states in which execute_channel_actions is running or has just returned
InExecutorRun ==
    pc \in {"exec", "loop", "batch_prompt", "batch_run", "approve", "process", "post_exec"}

\* C18: on a dry run, whatever the ledger and whatever the operator answers,
\* the executor issues no archive, rename, join or post call, and it does not
\* write the activity cache file.
C18_DryRunExecutorMutatesNothing ==
    cfg.dry_run => /\ \A k \in 1..Len(calls) : calls[k].op \notin MutatingOps
                   /\ InExecutorRun => ~cache_written

\* a dry run in which two records were approved and reported as successful
C18_Witness ==
    /\ cfg.dry_run
    /\ pc = "post_exec"
    /\ contacted
    /\ counts.successful = 2
    /\ calls = <<>>
    /\ ~cache_written

-----------------------------------------------------------------------------
\* C19: a dry run of the curation script leaves what is persisted as it was:
\* the ledger is not written and holds the records it held before the run,
\* with the same action and target_value also after a retarget during the
\* approval, and the activity cache file is not written.
C19_DryRunPersistsNothing ==
    (cfg.tool = "curator" /\ cfg.dry_run)
    => /\ ~wrote
       /\ ledger = ledger0
       /\ ~cache_written

\* a dry run wrote the ledger with the target the operator typed at the
\* retarget prompt
C19_Witness ==
    /\ cfg.tool = "curator"
    /\ cfg.dry_run
    /\ pc = "done"
    /\ wrote
    /\ retargets = 1
    /\ Len(ledger0) = 1
    /\ ledger[1].channel_id = ledger0[1].channel_id
    /\ ledger[1].target_value # ledger0[1].target_value
    /\ Len(ledger) > 1

-----------------------------------------------------------------------------
\* C20: whatever the record handed to the handler and whatever the remote
\* side does (ok response, response that is not ok, provider error, unexpected
\* exception), execute_action returns an outcome that is a success or a
\* failure: it returns nothing else and raises nothing.
C20_HandlerReturnsOutcome ==
    pc = "process"
    => \A fault \in Faults :
          execute_action(remote, channels[ap.rec].channel_id,
                         ActionLower(channels[ap.rec].action),
                         channels[ap.rec].target_value, fault).outcome
             \in {"success", "failure"}

\* the handler returned no outcome and the record was reported as skipped
C20_Witness ==
    /\ last.handler = "none"
    /\ last.result = "skipped"
    /\ \E k \in 1..Len(calls) : calls[k].op = "archive"

-----------------------------------------------------------------------------
\* the rule for a channel name: not empty, at most 80 characters, only
\* lowercase letters, digits, hyphen and underscore
ValidName(name) ==
    /\ name # <<>>
    /\ Len(name) <= 80
    /\ \A k \in 1..Len(name) : name[k] \in LowerLetters \cup Digits \cup {"-", "_"}

\* the handler's verdict on the format of a new name
HandlerFormat(name) ==
    LET msg == rename_channel(remote, "C1", name, "none").msg
    IN  IF msg \in {"empty", "too_long", "bad_chars"} THEN msg ELSE "ok"

\* the approval's verdict on the format of a new name
ApprovalFormat(name) ==
    LET kind == ApprovalCheck(RENAME, name, <<>>, remote)
    IN  IF kind \in {"too_long", "bad_format", "bad_chars"} THEN kind ELSE "ok"

NamesAccepted == { <<"g", "e", "n", "e", "r", "a", "l">>,
                   <<"t", "e", "a", "m", "-", "c", "h", "a", "t">>,
                   <<"p", "r", "o", "j", "_", "4", "2">> }

NamesRejected == { <<"G", "e", "n", "e", "r", "a", "l">>,
                   <<"t", "e", "a", "m", " ", "c", "h", "a", "t">>,
                   <<"t", "e", "a", "m", ".", "c", "h", "a", "t">> }

\* C21: "general", "team-chat" and "proj_42" pass the format validation of
\* the handler and of the approval, "General", "team chat" and "team.chat" are
\* refused by both for their format or characters; and every rename target that
\* comes to the approval or to the handler is accepted by it exactly when it
\* is a valid name (not empty, at most 80 characters, only lowercase letters,
\* digits, hyphen and underscore).
C21_NameAcceptedIffValid ==
    /\ \A n \in NamesAccepted : HandlerFormat(n) = "ok" /\ ApprovalFormat(n) = "ok"
    /\ \A n \in NamesRejected :
          HandlerFormat(n) = "bad_chars" /\ ApprovalFormat(n) \in {"bad_format", "bad_chars"}
    /\ (pc = "approve" /\ ap.action = RENAME /\ channels[ap.rec].target_value # <<>>)
          => (ApprovalFormat(channels[ap.rec].target_value) = "ok"
                <=> ValidName(channels[ap.rec].target_value))
    /\ (pc = "process" /\ LoweredAction(channels[ap.rec]) = RENAME)
          => (HandlerFormat(channels[ap.rec].target_value) = "ok"
                <=> ValidName(channels[ap.rec].target_value))

\* the approval refuses the format of a name made of a digit
C21_Witness ==
    /\ pc = "approve"
    /\ ap.action = RENAME
    /\ channels[ap.rec].target_value = <<"1">>
    /\ ValidName(channels[ap.rec].target_value)
    /\ ApprovalFormat(channels[ap.rec].target_value) = "bad_format"
    /\ HandlerFormat(channels[ap.rec].target_value) = "ok"

\* C22: the rate-limit retry bound applies per page: the enumeration fails on
\* rate limits only when a single page has been answered "rate_limited" more
\* than 3 times; while no page has, the enumeration goes on and returns every
\* entity
C22_FailsOnlyOnPageBound ==
    /\ (en.pc = "failed" /\ en.error = "rate_limited") => en.worst > RateLimitBound
    /\ en.pc = "done" =>
          [k \in 1..Len(en.channels) |-> en.channels[k].id]
             = [k \in 1..Len(conversations_list(remote, TRUE)) |->
                   conversations_list(remote, TRUE)[k].id]

\* two pages answered "rate_limited" twice each, and the enumeration failed
C22_Witness ==
    /\ en.pc = "failed" /\ en.error = "rate_limited"
    /\ en.page = 2 /\ en.hits = 2 /\ en.worst = 2

\* the stored entry is older than the expiration window at time t, or carries
\* no timestamp
Expired(file, t) ==
    \/ ~file.content.has_timestamp
    \/ t - file.content.timestamp > CACHE_EXPIRATION

\* a run that has loaded the cache and has not yet written it
Loaded == en.pc \in {"paging", "activity"} /\ ~en.force_refresh

\* C23: load_cache returns an empty cache whenever the stored entry's
\* timestamp is older than the 24-hour window or is missing, whatever the
\* entry's activity holds; an entry within the window is returned unchanged
C23_ExpiredCacheLoadsEmpty ==
    (Loaded /\ en.file0.kind = "entry") =>
        IF Expired(en.file0, now) THEN en.cache = EmptyDict
        ELSE en.cache = en.file0.content

\* a stored entry with activity in it and a timestamp past the window was
\* loaded as the empty cache
C23_Witness ==
    /\ Loaded /\ en.file0.kind = "entry"
    /\ en.file0.content.has_timestamp
    /\ now - en.file0.content.timestamp > CACHE_EXPIRATION
    /\ DOMAIN en.file0.content.activity # {}
    /\ en.cache = EmptyDict

-----------------------------------------------------------------------------
\* a record the batch mode collects: valid id and name, a supported action
\* other than keep
Batchable(ch) ==
    /\ ch.channel_id # "" /\ ch.name # <<>>
    /\ ActionLower(ch.action) \in ChannelActionValues \ {KEEP}

\* the batchable records among the first n of the sorted order, in that order
RECURSIVE BatchableUpTo(_)
BatchableUpTo(n) ==
    IF n = 0 THEN <<>>
    ELSE BatchableUpTo(n - 1)
            \o (IF Batchable(channels[order[n]]) THEN <<order[n]>> ELSE <<>>)

\* C24: in batch mode with batch size N > 0 and no quit, the batchable records
\* are presented N at a time, each in exactly one batch prompt: a prompt shows
\* the batchable records met since the last full batch, at most N of them,
\* and when the loop has ended no collected record is left unpresented
C24_EveryBatchPresented ==
    cfg.batch_size > 0 =>
        /\ pc = "batch_prompt" =>
              LET met == BatchableUpTo(i)
                  from == ((Len(met) - 1) \div cfg.batch_size) * cfg.batch_size + 1
              IN  /\ Len(batch) \in 1..cfg.batch_size
                  /\ batch = SubSeq(met, from, Len(met))
        /\ summary.how = "completed" => batch = <<>>

\* the loop has ended, no prompt was shown, and an archive collected for the
\* next batch is still waiting
C24_Witness ==
    /\ cfg.batch_size > 0
    /\ summary.how = "completed"
    /\ Len(batch) = 1 /\ ActionLower(channels[batch[1]].action) = ARCHIVE
    /\ ~approved_all /\ counts.skipped = 0 /\ calls = <<>>

-----------------------------------------------------------------------------
\* the records whose rename has succeeded in this run
RenamedRecs ==
    {k \in 1..Len(channels) :
        /\ \E n \in 1..Len(okids) : okids[n] = channels[k].channel_id
        /\ ActionLower(channels[k].action) = RENAME
        /\ k # ap.rec}

\* C25: once a rename of X to n has succeeded, the approval of a later record
\* of the run sees the post-rename names (nobody else having changed the
\* workspace meanwhile): an archive redirected to n finds n among the live
\* channels, and a rename to X's former name does not find that name in use
C25_LaterRecordsSeeNewNames ==
    (pc = "approve" /\ externals = 0 /\ retargets = 0 /\ ~cfg.dry_run) =>
        \A k \in RenamedRecs :
            LET target_value == channels[ap.rec].target_value
                check == ApprovalCheck(ap.action, target_value, current, remote)
            IN  /\ (ap.action = ARCHIVE /\ LStrip(target_value, "#") = channels[k].name)
                      => check = "ok"
                /\ (ap.action = RENAME /\ target_value = ledger0[k].name)
                      => check # "taken"

\* C1 has been renamed from a to x, and the approval of the archive of C2 with
\* redirect to x does not find x
C25_Witness ==
    /\ pc = "approve" /\ externals = 0 /\ retargets = 0 /\ ~cfg.dry_run
    /\ RenamedRecs # {}
    /\ remote["C1"].name = <<"x">>
    /\ ap.action = ARCHIVE /\ channels[ap.rec].target_value = <<"x">>
    /\ ApprovalCheck(ap.action, <<"x">>, current, remote) = "target_not_found"
    /\ HasName(conversations_list(remote, TRUE), <<"x">>)

-----------------------------------------------------------------------------
\* C26: an activity value that a run applies to a channel from the cache was
\* obtained from the history API no more than the expiration window before
\* that run, however many runs have saved the cache in between
C26_CachedActivityWithinWindow ==
    \A k \in 1..Len(en.channels) :
        en.channels[k].latest.from_cache
            => en.started - en.channels[k].latest.obtained <= CACHE_EXPIRATION

\* a run applied to C1 a value fetched more than 24 hours before, from a cache
\* file that an earlier run had saved less than 24 hours before
C26_Witness ==
    /\ en.pc = "done" /\ ~en.force_refresh
    /\ en.file0.kind = "entry" /\ ~Expired(en.file0, en.started)
    /\ \E k \in 1..Len(en.channels) :
          /\ en.channels[k].id = "C1"
          /\ en.channels[k].latest.from_cache
          /\ en.started - en.channels[k].latest.obtained > CACHE_EXPIRATION

-----------------------------------------------------------------------------
\* the names of the live channels of the workspace
LiveNames == conversations_list(remote, TRUE)

\* C27: in individual approval (nobody else changing the workspace
\* meanwhile) a record is approved only if its final target_value, as it was
\* in the ledger or as it was last entered at a retarget prompt, satisfies
\* every rule of its action: a rename target is a valid name that no live
\* channel bears, an archive redirect target is the name of a live channel
C27_ApprovedTargetIsValid ==
    (cfg.batch_size = 0 /\ pc = "process" /\ externals = 0) =>
        LET target_value == channels[ap.rec].target_value
        IN  /\ ap.action = RENAME =>
                  /\ ValidName(target_value)
                  /\ ~HasName(LiveNames, target_value)
            /\ (ap.action = ARCHIVE /\ target_value # <<>>) =>
                  HasName(LiveNames, LStrip(target_value, "#"))

\* C1 has been renamed to x in this run, and the rename of C2 to x has been
\* approved
C27_Witness ==
    /\ cfg.batch_size = 0 /\ pc = "process" /\ externals = 0
    /\ ap.action = RENAME
    /\ channels[ap.rec].channel_id = "C2"
    /\ channels[ap.rec].target_value = <<"x">>
    /\ remote["C1"].name = <<"x">>

-----------------------------------------------------------------------------
\* a redirect target that is not a channel name: an upper-case letter, a space
\* or a period in it
Malformed(target) ==
    \E k \in 1..Len(target) : target[k] \in UpperLetters \cup {" ", "."}

\* the record breaks one of the ledger rules, its action read without regard
\* to case and an empty action read as nothing to do
FailsValidation(ch) ==
    LET action == ActionLower(ch.action)
    IN  \/ action \notin ChannelActionValues \cup {""}
        \/ action = RENAME /\ ch.target_value = <<>>
        \/ action \in {KEEP, NEW_ACTION} /\ ch.target_value # <<>>
        \/ action = ARCHIVE /\ ActionLower(ch.is_shared) = "true"
        \/ ch.channel_id = "" \/ ch.name = <<>>
        \/ /\ action = ARCHIVE /\ ch.target_value # <<>>
           /\ Malformed(LStrip(ch.target_value, "#"))

\* C28: when a record of the ledger the curation script reads breaks a ledger
\* rule (unrecognized action, rename without target, keep or new with a
\* target, archive of a shared channel, missing id or name, malformed redirect
\* target of an archive), the run executes nothing: it issues no mutating
\* call and does not write the ledger
C28_InvalidLedgerExecutesNothing ==
    (cfg.tool = "curator" /\ \E k \in 1..Len(ledger0) : FailsValidation(ledger0[k]))
    => /\ \A k \in 1..Len(calls) : calls[k].op \notin MutatingOps
       /\ ~wrote

\* the ledger's only record, an archive written "Archive" with the redirect
\* target B, was retargeted and executed, and the ledger was written
C28_Witness ==
    /\ cfg.tool = "curator"
    /\ Len(ledger0) = 1
    /\ ledger0[1].action = "Archive" /\ ledger0[1].target_value = <<"B">>
    /\ \E k \in 1..Len(calls) : calls[k].op = "archive"
    /\ wrote

-----------------------------------------------------------------------------
\* the handler's call has returned
Returned == hd.pc = "returned"

\* the archive call was issued
ArchiveIssued == \E k \in 1..Len(hd.out.calls) : hd.out.calls[k].op = "archive"

\* the live state of the source lets the archival go on
SourceArchivable ==
    /\ hd.r[hd.id].exists
    /\ ~hd.r[hd.id].is_archived
    /\ ~hd.r[hd.id].is_general

\* the channels that bear the name of the redirect target
TargetsNamed ==
    {id \in Ids : hd.r[id].exists /\ hd.r[id].name = LStrip(hd.target_channel, "#")}

\* the handler could look up the source and list the channels
LookupsWork == hd.fault \notin {"info", "list"}

\* C29: the archive handler issues no archive call when the source is found
\* archived, is the general channel or is not found, or when a redirect
\* target is given that no channel bears or that is archived; each of these
\* cases ends in a failure with a message of its own
C29_NoArchiveWhenRefused ==
    Returned =>
        /\ ~hd.r[hd.id].exists
              => /\ ~ArchiveIssued
                 /\ hd.out.outcome = "failure" /\ hd.out.msg = "not_found"
        /\ (hd.r[hd.id].exists /\ hd.r[hd.id].is_archived)
              => /\ ~ArchiveIssued
                 /\ hd.out.outcome = "failure"
                 /\ LookupsWork => hd.out.msg = "already_archived"
        /\ (hd.r[hd.id].exists /\ ~hd.r[hd.id].is_archived /\ hd.r[hd.id].is_general)
              => /\ ~ArchiveIssued
                 /\ hd.out.outcome = "failure"
                 /\ LookupsWork => hd.out.msg = "general"
        /\ (SourceArchivable /\ hd.target_channel # <<>> /\ TargetsNamed = {})
              => /\ ~ArchiveIssued
                 /\ hd.out.outcome = "failure"
                 /\ LookupsWork => hd.out.msg = "target_missing"
        /\ (SourceArchivable /\ hd.target_channel # <<>>
               /\ \E id \in TargetsNamed : hd.r[id].is_archived)
              => /\ ~ArchiveIssued
                 /\ hd.out.outcome = "failure"
                 /\ LookupsWork => hd.out.msg = "target_archived"

\* the archive of a live channel with redirect to an archived channel was
\* refused
C29_Witness ==
    /\ Returned /\ SourceArchivable /\ hd.fault = "none"
    /\ hd.target_channel = <<"#", "b">> /\ hd.r["C2"].exists /\ hd.r["C2"].is_archived
    /\ hd.out.outcome = "failure" /\ hd.out.msg = "target_archived"
    /\ hd.out.calls = <<>>

\* the handler has got as far as the redirect notice
NoticeStage ==
    /\ Returned /\ SourceArchivable /\ LookupsWork
    /\ hd.target_channel # <<>>
    /\ \E id \in TargetsNamed : ~hd.r[id].is_archived

-----------------------------------------------------------------------------
\* the ids of the records main handed to the executor, in the sorted order
PendingIds == [k \in 1..Len(order) |-> channels[order[k]].channel_id]

\* a prompt is on the screen: the batch prompt, or a prompt of the approval
PromptShown == pc \in {"batch_prompt", "approve"}

\* C31: on a dry run the executor skips the live snapshot fetch, the approval
\* and the re-verification: it sends no request of any kind to the workspace,
\* shows no prompt, and when it returns its list of successes holds the id of
\* every pending record.
C31_DryRunExecutorIsSilent ==
    (cfg.dry_run /\ InExecutor) =>
        /\ ~contacted
        /\ ~PromptShown
        /\ summary.printed => okids = PendingIds

\* a dry run has fetched the live channels and is asking the operator to
\* approve the first record
C31_Witness ==
    /\ cfg.dry_run
    /\ pc = "approve"
    /\ contacted
    /\ current # <<>>
    /\ okids = <<>>
    /\ calls = <<>>

-----------------------------------------------------------------------------
\* C32: after the merge of the curation script, every row of the ledger that
\* matches a live entity carries the live entity's description and the live
\* entity's other observed fields (here is_shared, which stands for
\* is_private, member_count and last_activity as well: the merge treats them
\* alike).
C32_MergeRefreshesMetadata ==
    (pre.ok /\ cfg.tool = "curator") =>
        \A k \in 1..Len(channels) :
            channels[k].channel_id \in LiveIds(current) =>
                LET live == create_channel_dict(
                                LastWithId(current, channels[k].channel_id), FALSE)
                IN  /\ channels[k].description = live.description
                    /\ channels[k].is_shared = live.is_shared

\* the merge has refreshed the description of a row recorded as shared, whose
\* channel is not shared any more, and the row still says shared
C32_Witness ==
    /\ pre.ok /\ cfg.tool = "curator" /\ pc = "done" /\ wrote
    /\ Len(pre.rows) = 1
    /\ pre.rows[1].description # channels[1].description
    /\ channels[1].description = <<"p">>
    /\ channels[1].is_shared = "true"
    /\ remote[channels[1].channel_id].is_shared = "false"
    /\ ledger = channels

-----------------------------------------------------------------------------
\* C33: the format check of the approval and the format check of the handler
\* accept the same names: whatever rename target a record carries, as read
\* from the ledger or as typed at a retarget prompt, either both checks accept
\* its format or both refuse it.
C33_FormatChecksAgree ==
    \A k \in 1..Len(channels) :
        (ActionLower(channels[k].action) = RENAME /\ channels[k].target_value # <<>>)
            => (ApprovalFormat(channels[k].target_value) = "ok"
                    <=> HandlerFormat(channels[k].target_value) = "ok")

\* the operator typed the name 1 at a retarget prompt and the approval refuses
\* its format, which the handler would accept
C33_Witness ==
    /\ pc = "approve"
    /\ retargets = 1
    /\ ActionLower(channels[ap.rec].action) = RENAME
    /\ channels[ap.rec].target_value = <<"1">>
    /\ ledger0[ap.rec].target_value # <<"1">>
    /\ ApprovalCheck(ap.action, <<"1">>, current, remote) = "bad_format"
    /\ rename_channel(remote, channels[ap.rec].channel_id, <<"1">>, "none").outcome
          = "success"

-----------------------------------------------------------------------------
\* the ids of the records whose rename the handler has reported as successful
RenamedIds ==
    {ledger0[m].channel_id :
        m \in {n \in 1..Len(ledger0) : ActionLower(ledger0[n].action) = RENAME}}
    \cap OkSet

\* every row of rows that bears one of the ids bears the name the workspace
\* holds for that id
NamesAsRemote(rows, ids) ==
    \A k \in 1..Len(rows) :
        rows[k].channel_id \in ids => rows[k].name = remote[rows[k].channel_id].name

\* C34: after a rename the handler reported as successful (nobody else having
\* changed the workspace), the name in the in-memory record, and then in the
\* ledger that is written, is the name the workspace holds for the channel,
\* also when the workspace modified the requested name.
C34_RecordedNameIsRemoteName ==
    (~cfg.dry_run /\ externals = 0) =>
        /\ NamesAsRemote(channels, RenamedIds)
        /\ wrote => NamesAsRemote(ledger, RenamedIds)

\* the rename of C1 to x succeeded with the name modified by the workspace,
\* and the ledger was written with the name x
C34_Witness ==
    /\ ~cfg.dry_run /\ externals = 0 /\ retargets = 0
    /\ cfg.tool = "curator" /\ pc = "done" /\ wrote
    /\ okids = <<"C1">>
    /\ remote["C1"].name = AdjustedName(<<"x">>)
    /\ ledger[1].channel_id = "C1" /\ ledger[1].name = <<"x">>
    /\ ledger[1].action = KEEP

-----------------------------------------------------------------------------
\* the k-th entry of calls is a mutating call
Mutating(k) == calls[k].op \in MutatingOps

\* C35: in one execution run, in individual mode and inside an approved batch
\* alike, between two mutating calls that act on different records the
\* executor pauses: the log of the run shows a sleep between them.
C35_PauseBetweenRecords ==
    \A a \in 1..Len(calls), b \in 1..Len(calls) :
        (a < b /\ Mutating(a) /\ Mutating(b) /\ calls[a].id # calls[b].id)
            => \E p \in (a + 1)..(b - 1) : calls[p].op = "sleep"

\* two records were archived one right after the other, without a pause
C35_Witness ==
    /\ Len(calls) = 2
    /\ calls[1].op = "archive" /\ calls[1].id = "C1"
    /\ calls[2].op = "archive" /\ calls[2].id = "C2"
    /\ counts.successful = 2

-----------------------------------------------------------------------------
\* C36: during the enumeration at most 10 history fetches are in flight at any
\* time, and fetches are started only when none is in flight: a batch is
\* handed to gather from the queueing loop after every fetch of the batch
\* before has returned.
C36_BoundedFanOut ==
    /\ [](InFlight(ft) <= FetchBatch)
    /\ [][InFlight(ft') > InFlight(ft)
            => (InFlight(ft) = 0 /\ ft.pc = "queue" /\ ft'.pc = "gather")]_vars

\* twelve channels to fetch: the first ten fetches have all returned, and the
\* last two are in flight, one of them asleep after a rate-limited answer
C36_Witness ==
    /\ ft.pc = "gather"
    /\ ft.todo = 12 /\ ft.k = 12
    /\ ft.gathers = 2
    /\ InFlight(ft) = 2
    /\ ft.s1 = 1

-----------------------------------------------------------------------------
\* the ids and names of a list of channels, in order
IdsAndNames(chs) == [k \in 1..Len(chs) |-> <<chs[k].id, chs[k].name>>]

\* C37: whichever history fetches fail, the enumeration is not aborted: it
\* returns every entity of every page; an entity whose fetch failed is left
\* without last activity, and every other entity has the activity it has in
\* a run in which no fetch fails.
C37_FetchFailuresStayLocal ==
    [][en.pc = "activity" =>
          /\ en'.pc = "done"
          /\ IdsAndNames(en'.channels) = IdsAndNames(conversations_list(remote, TRUE))
          /\ \A k \in en'.failed : en'.channels[k].latest = NoLatest
          /\ \A k \in (1..Len(en'.channels)) \ en'.failed :
                en'.channels[k].latest
                   = WithActivity(en.channels, en.cache, en.force_refresh, {},
                                  activity, now)[k].latest]_vars

\* the fetch for the first channel failed and left it without activity, the
\* fetch for the second one brought its latest message
C37_Witness ==
    /\ en.pc = "done"
    /\ Len(en.channels) = 2
    /\ en.failed = {1}
    /\ activity[en.channels[1].id] # 0
    /\ en.channels[1].latest = NoLatest
    /\ en.channels[2].latest.ts = activity[en.channels[2].id]
    /\ en.channels[2].latest.ts # 0
    /\ ~en.channels[2].latest.from_cache

-----------------------------------------------------------------------------
\* the cache file the run found cannot be used: it is missing, cannot be read
\* or parsed, or is past the expiration window
Unusable(file, t) == file.kind \in {"absent", "unreadable"} \/ Expired(file, t)

-----------------------------------------------------------------------------
\* get_all_channels has returned the list or raised
FetchEnded == ft.pc \in {"returned", "failed"}

\* C39: whatever the answers of the workspace (pages, rate limits on pages,
\* rate limits on history fetches, other errors), an enumeration over a
\* finite number of pages comes to an end: it returns the list or it raises,
\* and once ended it makes no further request.
C39_EnumerationTerminates ==
    /\ <>FetchEnded
    /\ [](FetchEnded => [](FetchEnded /\ InFlight(ft) = 0))

\* the enumeration has returned after three rate-limited page requests, two
\* gathers, and a history fetch that was rate-limited max_retries times
C39_Witness ==
    /\ ft.pc = "returned"
    /\ ft.rate_limit_count = RateLimitBound
    /\ ft.pages = MaxPages
    /\ ft.gathers = 2
    /\ ft.gave_up

====
